---- MODULE Spec2Model ----
(***************************************************************************)
(* Courtroom debate engine: the turn orchestration and interruption engine *)
(* of the backend session (README "Real-Time User Intervention": the       *)
(* run_agent_turn / handle_intervention / websocket_endpoint listings) and *)
(* the frontend demo driver (hooks/useDemoMode.ts), which replays the same *)
(* phase sequence from timers when no backend is connected.                *)
(***************************************************************************)
EXTENDS Integers, Sequences, FiniteSets, TLC

(* ---------------------------- bounds ---------------------------------- *)
\* chunks the provider stream of one Turn may yield
MaxChunks == 2
\* intervention messages the client sends over the session's lifetime
MaxDirectives == 2
\* repetitions of the cross-examination step (CROSS_EXAM_1, CROSS_EXAM_2)
MaxRounds == 1

\* characters of each mock text the demo driver streams
MockTextLen == 2
\* clicks on "Begin Cross-Examination" while the button is rendered
MaxClicks == 2
\* interventions submitted in demo mode
MaxDemoDirectives == 1
\* tokens of a Turn text given to the Citation Validator
MaxTokens == 5
\* evidence items in the list given to the panels
MaxEvidence == 2
\* WebSockets one hook instance creates
MaxSockets == 3
\* changes of the url given to useDebateSocket
MaxUrlChanges == 1
\* runs of the Citation Validator on one (text, registry) pair
MaxRuns == 2

(* ------------------------- program constants -------------------------- *)
TOKEN_DELAY == 18
PHASE_DELAY == 1200
\* MOCK_TOOL_CALLS.length
NumToolCalls == 4
\* MOCK_CROSS_EXAM_EXCHANGES.length
NumExchanges == 4

(* ---------------------------- vocabulary ------------------------------ *)
Dilemmas == {"", "Should X?"}

DirectiveTexts == {"What about cost?"}

\* types.ts DebatePhase, in declaration order
PhaseOrder ==
  << "INTAKE", "CASE_BRIEF", "DISCOVERY", "DEFENSE_OPENING",
     "PROSECUTION_OPENING", "AWAITING_CROSS_EXAM", "CROSS_EXAM_1",
     "CROSS_EXAM_2", "DEFENSE_CLOSING", "PROSECUTION_CLOSING", "VERDICT",
     "EPISTEMIC_MAP", "COMPLETE" >>

Phases == { PhaseOrder[i] : i \in 1..Len(PhaseOrder) }

\* "none": no session exists yet
NoPhase == "none"

\* useDebateSocket.ts getActiveAgent: the speaker a phase declares
getActiveAgent(p) ==
  CASE p = "DISCOVERY" -> "researcher"
    [] p \in {"DEFENSE_OPENING", "CROSS_EXAM_1", "DEFENSE_CLOSING"} -> "defense"
    [] p \in {"PROSECUTION_OPENING", "CROSS_EXAM_2", "PROSECUTION_CLOSING"}
         -> "prosecution"
    [] p = "VERDICT" -> "judge"
    [] OTHER -> "null"

\* fault injection for C4: the interrupted role keeps the floor
SameRole(role) == role

\* README "After intervention": the other agent speaks next
Opposing(role) == IF role = "defense" THEN "prosecution" ELSE "defense"

\* no Directive (asyncio.QueueEmpty, or nothing injected)
NoDirective == [id |-> 0, content |-> ""]

\* the context of a Turn that answers no Directive
NoContext == [directive |-> "", new_evidence |-> {}, partial |-> << >>]

\* the Turn Executor frame when no Turn is running
NoTurn ==
  [ id |-> 0, role |-> "null", pc |-> "idle",
    partial_response |-> << >>, intervention |-> NoDirective,
    context |-> NoContext ]

VARIABLES
  mode,             \* App: "live" (socket session) or "demo" (useDemoMode)
  current_phase,    \* session.current_phase
  opc,              \* position of run_debate, the orchestrator loop
  next_role,        \* role the orchestrator gives the next speaking Turn
  round,            \* cross-examination repetitions executed so far
  turn,             \* frame of the run_agent_turn invocation in progress
  running,          \* ids of the Turns started and not yet returned
  turn_count,       \* Turns started so far (the id of the latest one)
  start_queue,      \* session.start_queue
  intervention_queue, \* session.intervention_queue, the Directive Channel
  dir_count,        \* interventions received so far
  transcript,       \* session.transcript
  court_directives, \* session.court_directives
  evidence,         \* evidence registry: ids of the items gathered
  sink,             \* increments of the running Turn sent on the websocket
  consumed,         \* history: the Directives taken off the channel
  outcomes,         \* history: how each returned Turn left its stream loop
  last_error,       \* error reported for the latest refused request
  demo,             \* useDemoMode: the DebateState held by the hook
  timers,           \* useDemoMode: the pending setTimeout callbacks
  now,              \* the time of the latest event, in ms
  timer_seq,        \* setTimeout calls made so far (creation order)
  isStarting,       \* DilemmaInput: the submit lock
  last_submit,      \* history: the latest submit of the dilemma form
  clicks,           \* clicks on "Begin Cross-Examination" so far
  streaming,        \* history: number of streamText streams started, not ended
  scores,           \* session confidence pair, one running score per role
  last_event,       \* history: the latest scoring event applied
  conf_msg,         \* confidence_update message in flight to the client
  ws,               \* useDebateSocket: the DebateState held by the hook
  text,             \* the Turn text under validation, as a token sequence
  validation,       \* result of the latest Citation Validator run
  prev_validation,  \* history: result of the run before the latest
  runs,             \* Citation Validator runs on the current text so far
  attempts,         \* provider failures of the Turn being run
  panel,            \* CourtPanel / EvidenceTrail: props and what they render
  sockets,          \* useDebateSocket: readyState of every WebSocket created
  wsRef,            \* useDebateSocket: wsRef.current (0 = null)
  rtimers,          \* useDebateSocket: the reconnect timers still pending
  timerRef,         \* useDebateSocket: reconnectTimer.current (0 = undefined)
  hookpc,           \* useDebateSocket: "init", "mounted" or "unmounted"
  url_changes,      \* url changes of the hook so far
  app,              \* App: startedLive, useDemo of the last render, history
  received,         \* history: the messages handleMessage has handled
  toolCallCounter,  \* useDebateSocket: toolCallCounter.current
  bar               \* InterventionBar: props, input, what it shows, history

vars ==
  << mode, current_phase, opc, next_role, round, turn, running, turn_count,
     start_queue, intervention_queue, dir_count, transcript,
     court_directives, evidence, sink, consumed, outcomes, last_error,
     demo, timers, now, timer_seq, isStarting, last_submit, clicks,
     streaming,
     scores, last_event, conf_msg, ws, text, validation, prev_validation,
     runs, attempts, panel, sockets, wsRef, rtimers, timerRef, hookpc,
     url_changes, app, received, toolCallCounter, bar >>

sessionVars ==
  << current_phase, opc, next_role, round, turn, running, turn_count,
     start_queue, intervention_queue, dir_count, transcript,
     court_directives, evidence, sink, consumed, outcomes, last_error >>

demoVars ==
  << demo, timers, now, timer_seq, isStarting, last_submit, clicks,
     streaming >>

\* the dilemma form has not been submitted
NoSubmit == [input |-> "none", accepted |-> FALSE]

\* the state of the components checked on their own: the Confidence Scorer
\* and the socket client that shows its updates
auxVars ==
  << scores, last_event, conf_msg, ws, text, validation, prev_validation,
     runs, attempts, panel, sockets, wsRef, rtimers, timerRef, hookpc,
     url_changes, app, received, toolCallCounter, bar >>

\* the connection state of useDebateSocket and what App derives from it
hookVars == << sockets, wsRef, rtimers, timerRef, hookpc, url_changes, app >>

\* what handleMessage keeps besides the DebateState
msgVars == << received, toolCallCounter >>

\* the state of the client components checked on their own
clientVars == << panel, hookVars, msgVars, bar >>

\* the intervention bar before anything happened: useState(""), nothing shown
NoBar ==
  [ phase |-> "INTAKE", interruptPending |-> FALSE, input |-> "",
    shown |-> "hidden", calls |-> << >>, submits |-> 0 ]

\* App before its first render: startedLive = useRef(false)
NoApp ==
  [startedLive |-> FALSE, useDemo |-> TRUE, dirty |-> FALSE,
   wasLive |-> FALSE]

\* nothing rendered yet
NoPanel ==
  [text |-> << >>, evidence |-> << >>, toolCalls |-> {}, rendered |-> FALSE,
   citations |-> << >>, inline |-> << >>, cards |-> << >>]

scorerVars == << scores, last_event, conf_msg, ws >>

validatorVars == << text, validation, prev_validation, runs >>

\* no Citation Validator result yet
NoValidation == [resolved |-> << >>, flags |-> << >>]

\* no scoring event yet / no message in flight
NoEvent == [role |-> "null", kind |-> "none"]
NoMsg == [type |-> "none", defense |-> 0, prosecution |-> 0]

\* spec 4.5: "seeded at 50/50"
SeedScores == [defense |-> 50, prosecution |-> 50]

\* useDebateSocket.ts INITIAL_STATE (the fields the model follows)
WS_INITIAL_STATE ==
  [ phase |-> "INTAKE", connected |-> FALSE,
    defenseText |-> << >>, prosecutionText |-> << >>,
    researcherText |-> << >>, judgeText |-> << >>,
    defenseInterrupted |-> FALSE, prosecutionInterrupted |-> FALSE,
    toolCalls |-> << >>,
    confidence |-> [defense |-> 50, prosecution |-> 50],
    activeAgent |-> "null" ]

\* useDemoMode.ts INITIAL_STATE
INITIAL_STATE ==
  [ phase |-> "INTAKE", caseBrief |-> FALSE, defenseText |-> << >>,
    prosecutionText |-> << >>, toolCalls |-> << >>,
    validationFlags |-> << >>,
    confidence |-> [defense |-> 50, prosecution |-> 50],
    courtDirectives |-> << >>, verdict |-> FALSE, epistemicMap |-> FALSE,
    crossExamMessages |-> << >>, activeAgent |-> "null" ]

Init ==
  /\ mode \in {"live", "demo"}
  /\ current_phase = NoPhase
  /\ opc = "wait_start"
  /\ next_role = "null"
  /\ round = 0
  /\ turn = NoTurn
  /\ running = {}
  /\ turn_count = 0
  /\ start_queue = << >>
  /\ intervention_queue = << >>
  /\ dir_count = 0
  /\ transcript = << >>
  /\ court_directives = << >>
  /\ evidence = {}
  /\ sink = << >>
  /\ consumed = << >>
  /\ outcomes = << >>
  /\ last_error = "none"
  /\ demo = INITIAL_STATE
  /\ timers = {}
  /\ now = 0
  /\ timer_seq = 0
  /\ isStarting = FALSE
  /\ last_submit = NoSubmit
  /\ clicks = 0
  /\ streaming = 0
  /\ scores = SeedScores
  /\ last_event = NoEvent
  /\ conf_msg = NoMsg
  /\ ws = WS_INITIAL_STATE
  /\ text = << >>
  /\ validation = NoValidation
  /\ prev_validation = NoValidation
  /\ runs = 0
  /\ attempts = 0
  /\ panel = NoPanel
  /\ sockets = << >>
  /\ wsRef = 0
  /\ rtimers = {}
  /\ timerRef = 0
  /\ hookpc = "init"
  /\ url_changes = 0
  /\ app = NoApp
  /\ received = << >>
  /\ toolCallCounter = 0
  /\ bar = NoBar

(* ------------------- inbound listener (README 430-439) ----------------- *)
\* asyncio.Queue.put: the queue is unbounded, the item goes to the back
put(q, item) == Append(q, item)

\* data["type"] == "start": the request is queued for run_debate.  The
\* dilemma input is rendered only while the client is in INTAKE.
ListenStart(d) ==
  /\ mode = "live"
  /\ opc = "wait_start"
  /\ start_queue = << >>
  /\ start_queue' = put(start_queue, d)
  /\ UNCHANGED demoVars
  /\ UNCHANGED auxVars
  /\ UNCHANGED << mode, current_phase, opc, next_role, round, turn, running,
                  turn_count, intervention_queue, dir_count, transcript,
                  court_directives, evidence, sink, consumed, outcomes,
                  last_error >>

\* data["type"] == "intervention": the Directive is queued, whatever the
\* phase and whether or not a Turn is streaming
ListenIntervention(c) ==
  /\ mode = "live"
  /\ dir_count < MaxDirectives
  /\ dir_count' = dir_count + 1
  /\ intervention_queue' =
       put(intervention_queue, [id |-> dir_count + 1, content |-> c])
  /\ UNCHANGED demoVars
  /\ UNCHANGED auxVars
  /\ UNCHANGED << mode, current_phase, opc, next_role, round, turn, running,
                  turn_count, start_queue, transcript, court_directives,
                  evidence, sink, consumed, outcomes, last_error >>

(* ------------------- Turn Executor (README 344-395) -------------------- *)
\* fault injection for C7: the front item is read but stays in the queue
PeekOnly(q) == q

\* intervention_queue.get_nowait(): the front item leaves the queue
get_nowait(q) == Tail(q)

\* fault injection for C2: every record is flagged interrupted
TranscriptAppendFlagged(t, agent, content, interrupted) ==
  Append(t, [agent |-> agent, content |-> content, interrupted |-> TRUE])

\* fault injection for C8: the record is put in front of the Transcript
TranscriptPrepend(t, agent, content, interrupted) ==
  << [agent |-> agent, content |-> content, interrupted |-> interrupted] >>
  \o t

\* session.transcript.append({agent, content, interrupted})
TranscriptAppend(t, agent, content, interrupted) ==
  Append(t, [agent |-> agent, content |-> content,
             interrupted |-> interrupted])

\* fault injection for C3: the token is put in front of the partial response
AddTokenFront(partial, token) == << token >> \o partial

\* partial_response += token
AddToken(partial, token) == Append(partial, token)

\* websocket.send_json of an agent_stream message
StreamMessage(agent, content, done, interrupted) ==
  [agent |-> agent, content |-> content, done |-> done,
   interrupted |-> interrupted]

\* fault injection for C1: a return that leaves the frame of the invocation
ReturnKeepsFrame(id) == running

\* "return": the invocation ends and its frame is gone
Return(id) == running \ {id}

\* an iteration whose poll waits for a Directive (queue.get in place of
\* get_nowait): it proceeds only once the queue holds one
NextChunkBlocking(has_content) ==
  /\ turn.pc = "await_chunk"
  /\ intervention_queue # << >>
  /\ intervention_queue' = get_nowait(intervention_queue)
  /\ consumed' = Append(consumed, Head(intervention_queue))
  /\ transcript' = TranscriptAppend(transcript, turn.role,
                                    turn.partial_response, TRUE)
  /\ outcomes' = Append(outcomes, "directive")
  /\ turn' = [turn EXCEPT !.pc = "notify",
                          !.intervention = Head(intervention_queue)]
  /\ UNCHANGED demoVars
  /\ UNCHANGED auxVars
  /\ UNCHANGED << mode, current_phase, opc, next_role, round, running,
                  turn_count, start_queue, dir_count, court_directives,
                  evidence, sink, last_error >>

\* one iteration of "async for chunk in stream": the queue is polled first;
\* a pending Directive ends the Turn with the text forwarded so far, and the
\* chunk just read is dropped; otherwise a chunk with content is added to
\* partial_response and is about to be sent, and a chunk without content
\* (no choices, an empty delta) changes nothing
NextChunk(has_content) ==
  /\ turn.pc = "await_chunk"
  /\ has_content => Len(turn.partial_response) < MaxChunks
  /\ IF intervention_queue # << >>
       THEN /\ intervention_queue' = get_nowait(intervention_queue)
            /\ consumed' = Append(consumed, Head(intervention_queue))
            /\ transcript' = TranscriptAppend(transcript, turn.role,
                                              turn.partial_response, TRUE)
            /\ outcomes' = Append(outcomes, "directive")
            /\ turn' = [turn EXCEPT !.pc = "notify",
                          !.intervention = Head(intervention_queue)]
       ELSE /\ turn' =
                 IF has_content
                   THEN [turn EXCEPT !.pc = "send",
                           !.partial_response =
                             AddToken(@, Len(turn.partial_response) + 1)]
                   ELSE turn
            /\ UNCHANGED << intervention_queue, consumed, transcript,
                            outcomes >>
  /\ UNCHANGED demoVars
  /\ UNCHANGED auxVars
  /\ UNCHANGED << mode, current_phase, opc, next_role, round, running,
                  turn_count, start_queue, dir_count, court_directives,
                  evidence, sink, last_error >>

\* await websocket.send_json({... "content": token, "done": False})
SendToken ==
  /\ turn.pc = "send"
  /\ sink' = Append(sink,
       StreamMessage(turn.role,
                     turn.partial_response[Len(turn.partial_response)],
                     FALSE, FALSE))
  /\ turn' = [turn EXCEPT !.pc = "await_chunk"]
  /\ UNCHANGED demoVars
  /\ UNCHANGED auxVars
  /\ UNCHANGED << mode, current_phase, opc, next_role, round, running,
                  turn_count, start_queue, intervention_queue, dir_count,
                  transcript, court_directives, evidence, consumed, outcomes,
                  last_error >>

\* the stream is exhausted: "Completed without interruption"
StreamEnd ==
  /\ turn.pc = "await_chunk"
  /\ Len(turn.partial_response) = MaxChunks
  /\ transcript' = TranscriptAppend(transcript, turn.role,
                                    turn.partial_response, FALSE)
  /\ outcomes' = Append(outcomes, "exhausted")
  /\ running' = Return(turn.id)
  /\ turn' = NoTurn
  /\ opc' = "returned"
  /\ UNCHANGED demoVars
  /\ UNCHANGED auxVars
  /\ UNCHANGED << mode, current_phase, next_role, round, turn_count,
                  start_queue, intervention_queue, dir_count,
                  court_directives, evidence, sink, consumed, last_error >>

\* await websocket.send_json({... "done": True, "interrupted": True})
NotifyInterrupted ==
  /\ turn.pc = "notify"
  /\ sink' = Append(sink, StreamMessage(turn.role, 0, TRUE, TRUE))
  /\ turn' = [turn EXCEPT !.pc = "directive"]
  /\ UNCHANGED demoVars
  /\ UNCHANGED auxVars
  /\ UNCHANGED << mode, current_phase, opc, next_role, round, running,
                  turn_count, start_queue, intervention_queue, dir_count,
                  transcript, court_directives, evidence, consumed, outcomes,
                  last_error >>

(* ------------------- handle_intervention (README 397-419) -------------- *)
\* 1. the Court Directive banner is sent
ShowDirective ==
  /\ turn.pc = "directive"
  /\ turn' = [turn EXCEPT !.pc = "research"]
  /\ UNCHANGED demoVars
  /\ UNCHANGED auxVars
  /\ UNCHANGED << mode, current_phase, opc, next_role, round, running,
                  turn_count, start_queue, intervention_queue, dir_count,
                  transcript, court_directives, evidence, sink, consumed,
                  outcomes, last_error >>

\* court_directives.append({content, new_evidence, injected_after})
DirectiveEntry(directive, new_evidence, phase) ==
  [id |-> directive.id, content |-> directive.content,
   new_evidence |-> new_evidence, injected_after |-> phase]

\* 2. quick research on the topic, 3. the directive and the new evidence are
\* appended to the session's court_directives; then run_agent_turn returns
ResearchDirective(new_evidence) ==
  /\ turn.pc = "research"
  /\ court_directives' =
       Append(court_directives,
              DirectiveEntry(turn.intervention, new_evidence, current_phase))
  /\ running' = Return(turn.id)
  /\ turn' = NoTurn
  /\ opc' = "returned"
  /\ UNCHANGED demoVars
  /\ UNCHANGED auxVars
  /\ UNCHANGED << mode, current_phase, next_role, round, turn_count,
                  start_queue, intervention_queue, dir_count, transcript,
                  evidence, sink, consumed, outcomes, last_error >>

(* ------------------- Session Orchestrator (spec 4.1, 4.2) -------------- *)
\* spec 4.1: the phase a phase transitions to on normal completion; the
\* cross-examination step is repeated while rounds remain
Successor(p, r) ==
  CASE p = "INTAKE" -> "CASE_BRIEF"
    [] p = "CASE_BRIEF" -> "DISCOVERY"
    [] p = "DISCOVERY" -> "DEFENSE_OPENING"
    [] p = "DEFENSE_OPENING" -> "PROSECUTION_OPENING"
    [] p = "PROSECUTION_OPENING" -> "AWAITING_CROSS_EXAM"
    [] p = "AWAITING_CROSS_EXAM" -> "CROSS_EXAM_1"
    [] p = "CROSS_EXAM_1" -> "CROSS_EXAM_2"
    [] p = "CROSS_EXAM_2" -> IF r < MaxRounds THEN "CROSS_EXAM_1" ELSE "VERDICT"
    [] p = "VERDICT" -> "EPISTEMIC_MAP"
    [] OTHER -> p

\* README 449-461: the Court Directive block injected into the next agent's
\* prompt after an interruption: directive, new evidence, partial statement
DirectiveContext ==
  IF /\ transcript # << >>
     /\ transcript[Len(transcript)].interrupted
     /\ court_directives # << >>
    THEN [directive |-> court_directives[Len(court_directives)].content,
          new_evidence |->
            court_directives[Len(court_directives)].new_evidence,
          partial |-> transcript[Len(transcript)].content]
    ELSE NoContext

\* start(dilemma, attachments): InvalidInput for an empty dilemma, otherwise
\* a Session is created in INTAKE
Start ==
  /\ opc = "wait_start"
  /\ start_queue # << >>
  /\ start_queue' = Tail(start_queue)
  /\ IF Head(start_queue) = ""
       THEN /\ last_error' = "InvalidInput"
            /\ UNCHANGED << current_phase, opc >>
       ELSE /\ current_phase' = "INTAKE"
            /\ opc' = "intake"
            /\ last_error' = "none"
  /\ UNCHANGED demoVars
  /\ UNCHANGED auxVars
  /\ UNCHANGED << mode, next_role, round, turn, running, turn_count,
                  intervention_queue, dir_count, transcript,
                  court_directives, evidence, sink, consumed, outcomes >>

\* start: "immediately advances it to CASE_BRIEF"
EnterCaseBrief ==
  /\ opc = "intake"
  /\ current_phase' = Successor(current_phase, round)
  /\ opc' = "case_brief"
  /\ UNCHANGED demoVars
  /\ UNCHANGED auxVars
  /\ UNCHANGED << mode, next_role, round, turn, running, turn_count,
                  start_queue, intervention_queue, dir_count, transcript,
                  court_directives, evidence, sink, consumed, outcomes,
                  last_error >>

\* start: the structured analysis is returned, "then advances to DISCOVERY"
EnterDiscovery ==
  /\ opc = "case_brief"
  /\ current_phase' = Successor(current_phase, round)
  /\ opc' = "discovery"
  /\ UNCHANGED demoVars
  /\ UNCHANGED auxVars
  /\ UNCHANGED << mode, next_role, round, turn, running, turn_count,
                  start_queue, intervention_queue, dir_count, transcript,
                  court_directives, evidence, sink, consumed, outcomes,
                  last_error >>

\* a non-interruptible Turn (research in DISCOVERY, the judge in VERDICT)
\* starts: it does not poll the Directive Channel
StartFixedTurn ==
  /\ opc \in {"discovery", "verdict"}
  /\ turn_count' = turn_count + 1
  /\ running' = running \cup {turn_count + 1}
  /\ turn' = [NoTurn EXCEPT !.id = turn_count + 1,
                            !.role = getActiveAgent(current_phase),
                            !.pc = "fixed"]
  /\ sink' = << >>
  /\ opc' = "in_turn"
  /\ UNCHANGED demoVars
  /\ UNCHANGED auxVars
  /\ UNCHANGED << mode, current_phase, next_role, round, start_queue,
                  intervention_queue, dir_count, transcript,
                  court_directives, evidence, consumed, outcomes,
                  last_error >>

\* the non-interruptible Turn returns complete; research fills the registry
FinishFixedTurn ==
  /\ turn.pc = "fixed"
  /\ transcript' = TranscriptAppend(transcript, turn.role, <<1>>, FALSE)
  /\ outcomes' = Append(outcomes, "exhausted")
  /\ evidence' = IF turn.role = "researcher" THEN evidence \cup {"tool_001"}
                 ELSE evidence
  /\ running' = Return(turn.id)
  /\ turn' = NoTurn
  /\ opc' = "returned"
  /\ UNCHANGED demoVars
  /\ UNCHANGED auxVars
  /\ UNCHANGED << mode, current_phase, next_role, round, turn_count,
                  start_queue, intervention_queue, dir_count,
                  court_directives, sink, consumed, last_error >>

\* runTurn: the Turn Executor is invoked with the assigned role and the
\* accumulated context
StartTurn ==
  /\ opc = "run_turn"
  /\ turn_count' = turn_count + 1
  /\ running' = running \cup {turn_count + 1}
  /\ turn' = [NoTurn EXCEPT !.id = turn_count + 1, !.role = next_role,
                            !.pc = "await_chunk",
                            !.context = DirectiveContext]
  /\ sink' = << >>
  /\ opc' = "in_turn"
  /\ UNCHANGED demoVars
  /\ UNCHANGED auxVars
  /\ UNCHANGED << mode, current_phase, next_role, round, start_queue,
                  intervention_queue, dir_count, transcript,
                  court_directives, evidence, consumed, outcomes,
                  last_error >>

\* runTurn on return: the Turn is over, so the failure count starts anew;
\* an interrupted Turn leaves the Phase where it is, the
\* evidence of the Directive's research is merged into the registry and the
\* floor goes to the opposing role; a complete Turn advances the Phase
AfterTurn ==
  /\ opc = "returned"
  /\ IF transcript[Len(transcript)].interrupted
       THEN /\ next_role' = Opposing(transcript[Len(transcript)].agent)
            /\ evidence' =
                 evidence \cup
                 court_directives[Len(court_directives)].new_evidence
            /\ opc' = "run_turn"
            /\ UNCHANGED << current_phase, round >>
       ELSE LET np == Successor(current_phase, round) IN
            /\ current_phase' = np
            /\ evidence' = evidence
            /\ round' = IF current_phase = "CROSS_EXAM_2" /\ np = "CROSS_EXAM_1"
                          THEN round + 1 ELSE round
            /\ next_role' = getActiveAgent(np)
            /\ opc' = CASE np = "AWAITING_CROSS_EXAM" -> "awaiting"
                        [] np = "VERDICT" -> "verdict"
                        [] np = "EPISTEMIC_MAP" -> "done"
                        [] OTHER -> "run_turn"
  /\ attempts' = 0
  /\ UNCHANGED demoVars
  /\ UNCHANGED << scorerVars, validatorVars >>
  /\ UNCHANGED clientVars
  /\ UNCHANGED << mode, turn, running, turn_count, start_queue,
                  intervention_queue, dir_count, transcript,
                  court_directives, sink, consumed, outcomes, last_error >>

\* triggerCrossExam: the begin-cross-exam event starts the repeatable step
TriggerCrossExam ==
  /\ opc = "awaiting"
  /\ current_phase' = Successor(current_phase, round)
  /\ round' = round + 1
  /\ next_role' = getActiveAgent(Successor(current_phase, round))
  /\ opc' = "run_turn"
  /\ UNCHANGED demoVars
  /\ UNCHANGED auxVars
  /\ UNCHANGED << mode, turn, running, turn_count, start_queue,
                  intervention_queue, dir_count, transcript,
                  court_directives, evidence, sink, consumed, outcomes,
                  last_error >>

SessionNext ==
  \/ \E d \in Dilemmas : ListenStart(d)
  \/ \E c \in DirectiveTexts : ListenIntervention(c)
  \/ Start
  \/ EnterCaseBrief
  \/ EnterDiscovery
  \/ StartFixedTurn
  \/ FinishFixedTurn
  \/ StartTurn
  \/ \E has_content \in BOOLEAN : NextChunk(has_content)
  \/ SendToken
  \/ StreamEnd
  \/ NotifyInterrupted
  \/ ShowDirective
  \/ \E new_evidence \in {{}, {"tool_002"}} : ResearchDirective(new_evidence)
  \/ AfterTurn
  \/ TriggerCrossExam

(* ------------------- demo driver (hooks/useDemoMode.ts) ---------------- *)
\* fault injection for C10: the CASE_BRIEF callback is scheduled 3 s late
TimerBriefLate(delay, op, a, n) ==
  [delay |-> IF a = "CASE_BRIEF" THEN delay + 3000 ELSE delay,
   op |-> op, a |-> a, n |-> n]

\* one schedule(fn, delay) call: the callback fn and its delay
Timer(delay, op, a, n) == [delay |-> delay, op |-> op, a |-> a, n |-> n]

\* streamText's return value: the time of its last callback
streamTextElapsed(startDelay) == startDelay + TOKEN_DELAY * MockTextLen + 200

\* streamText: activeAgent is set at startDelay, one character is appended
\* every TOKEN_DELAY, and 200 ms after the last one activeAgent is cleared
\* and onDone runs
streamText(field, agent, startDelay) ==
  << Timer(startDelay, "streamStart", agent, 0) >>
  \o [i \in 1..MockTextLen |->
        Timer(startDelay + TOKEN_DELAY * i, "char", field, i)]
  \o << Timer(streamTextElapsed(startDelay), "streamEnd", field, 0) >>

\* startDebate, "Tool calls appear one by one": call i is added 600 ms after
\* the previous step and completed 1200 ms later
ToolTimers(t0) ==
  [k \in 1..(2 * NumToolCalls) |->
     IF k % 2 = 1
       THEN Timer(t0 + 1800 * ((k - 1) \div 2) + 600, "toolCall", "",
                  (k - 1) \div 2)
       ELSE Timer(t0 + 1800 * (k \div 2), "toolResult", "", (k \div 2) - 1)]

\* startDebate: every callback it schedules, in the order of the schedule
\* calls, with the delay of each
startDebateSchedule ==
  LET tDiscovery == 500 + 800 + PHASE_DELAY
      tTools == tDiscovery + 1800 * NumToolCalls
      tDefense == tTools + 500 + PHASE_DELAY
      eDefense == streamTextElapsed(tDefense + 400)
      tProsecution == eDefense + PHASE_DELAY
      eProsecution == streamTextElapsed(tProsecution + 400)
  IN  << Timer(500, "phase", "CASE_BRIEF", 0),
         Timer(500 + 800, "caseBrief", "", 0),
         Timer(tDiscovery, "discovery", "", 0) >>
      \o ToolTimers(tDiscovery)
      \o << Timer(tTools + 500, "agentNull", "", 0),
            Timer(tDefense, "phase", "DEFENSE_OPENING", 0) >>
      \o streamText("defenseText", "defense", tDefense + 400)
      \o << Timer(tProsecution, "phase", "PROSECUTION_OPENING", 0) >>
      \o streamText("prosecutionText", "prosecution", tProsecution + 400)
      \o << Timer(eProsecution + PHASE_DELAY, "awaiting", "", 0) >>

\* MOCK_CROSS_EXAM_EXCHANGES[k].agent (k from 1)
ExchangeAgent(k) == IF k % 2 = 1 THEN "prosecution" ELSE "defense"

\* fault injection for C9: a defense exchange is shown under an opening phase
ExchangePhaseOpening(agent) ==
  IF agent = "prosecution" THEN "CROSS_EXAM_1" ELSE "PROSECUTION_OPENING"

\* startCrossExam: the phase an exchange is shown under
ExchangePhase(agent) ==
  IF agent = "prosecution" THEN "CROSS_EXAM_1" ELSE "CROSS_EXAM_2"

\* startCrossExam: the time one exchange takes (800 ms lead, the characters,
\* 200 ms tail)
ExchangeSpan == 800 + TOKEN_DELAY * MockTextLen + 200

\* startCrossExam: the callbacks of exchange k
ExchangeTimers(k) ==
  << Timer((k - 1) * ExchangeSpan + 800, "xStart", ExchangeAgent(k), k - 1) >>
  \o [i \in 1..MockTextLen |->
        Timer((k - 1) * ExchangeSpan + 800 + TOKEN_DELAY * i, "xChar", "", i)]
  \o << Timer(k * ExchangeSpan, "xDone", "", 0) >>

RECURSIVE AllExchangeTimers(_)
AllExchangeTimers(k) ==
  IF k = 0 THEN << >> ELSE AllExchangeTimers(k - 1) \o ExchangeTimers(k)

\* startCrossExam: every callback it schedules; after the exchanges the
\* verdict phase, the verdict and the epistemic map
startCrossExamSchedule ==
  LET tVerdict == NumExchanges * ExchangeSpan + PHASE_DELAY * 2 IN
  AllExchangeTimers(NumExchanges)
  \o << Timer(tVerdict, "verdictPhase", "", 0),
        Timer(tVerdict + 2000, "verdict", "", 0),
        Timer(tVerdict + 2000 + 2500, "epistemicMap", "", 0) >>

\* fault injection for C11: every schedule list gets one more callback that
\* moves the phase on to the cross-examination by itself
ScheduleAutoAdvance(list, t, seq0) ==
  { [at |-> t + list[i].delay, seq |-> seq0 + i, op |-> list[i].op,
     a |-> list[i].a, n |-> list[i].n] : i \in 1..Len(list) }
  \cup { [at |-> t + list[Len(list)].delay + PHASE_DELAY, seq |-> seq0,
          op |-> "phase", a |-> "CROSS_EXAM_1", n |-> 0] }

\* schedule: setTimeout for every entry of a schedule list, made at time t
Schedule(list, t, seq0) ==
  { [at |-> t + list[i].delay, seq |-> seq0 + i, op |-> list[i].op,
     a |-> list[i].a, n |-> list[i].n] : i \in 1..Len(list) }

\* the pending callback the browser runs next: the earliest, and among
\* equals the one created first
NextTimer ==
  CHOOSE x \in timers :
    \A y \in timers : x.at < y.at \/ (x.at = y.at /\ x.seq <= y.seq)

\* MOCK_TOOL_CALLS[i].tool
MockTool(i) ==
  CASE i = 1 -> "brave_search" [] i = 2 -> "exa" [] OTHER -> "search_papers"

\* the setState updater each scheduled callback runs
Callback(d, t) ==
  CASE t.op = "phase" -> [d EXCEPT !.phase = t.a]
    [] t.op = "caseBrief" -> [d EXCEPT !.caseBrief = TRUE]
    [] t.op = "discovery" ->
         [d EXCEPT !.phase = "DISCOVERY", !.activeAgent = "researcher"]
    [] t.op = "toolCall" ->
         [d EXCEPT !.toolCalls =
            Append(@, [id |-> t.n, agent |-> "researcher",
                       tool |-> MockTool(t.n), status |-> "pending",
                       result_id |-> 0])]
    [] t.op = "toolResult" ->
         [d EXCEPT !.toolCalls =
            [j \in 1..Len(@) |->
               IF @[j].id = t.n
                 THEN [@[j] EXCEPT !.status = "complete",
                                   !.result_id = t.n + 1]
                 ELSE @[j]]]
    [] t.op = "agentNull" -> [d EXCEPT !.activeAgent = "null"]
    [] t.op = "streamStart" -> [d EXCEPT !.activeAgent = t.a]
    [] t.op = "char" -> [d EXCEPT ![t.a] = Append(@, t.n)]
    [] t.op = "streamEnd" ->
         IF t.a = "defenseText"
           THEN [d EXCEPT !.activeAgent = "null",
                   !.confidence = [defense |-> 65, prosecution |-> 50]]
           ELSE [d EXCEPT !.activeAgent = "null",
                   !.confidence = [defense |-> 58, prosecution |-> 62],
                   !.validationFlags =
                     << [agent |-> "prosecution", status |-> "unsupported"] >>]
    [] t.op = "awaiting" ->
         [d EXCEPT !.phase = "AWAITING_CROSS_EXAM", !.activeAgent = "null"]
    [] t.op = "xStart" ->
         [d EXCEPT !.phase = ExchangePhase(t.a), !.activeAgent = t.a,
            !.crossExamMessages =
              Append(@, [id |-> t.n, agent |-> t.a, content |-> << >>,
                         done |-> FALSE])]
    [] t.op = "xChar" ->
         [d EXCEPT !.crossExamMessages[Len(d.crossExamMessages)].content =
                     Append(@, t.n)]
    [] t.op = "xDone" ->
         [d EXCEPT !.activeAgent = "null",
            !.crossExamMessages[Len(d.crossExamMessages)].done = TRUE]
    [] t.op = "verdictPhase" ->
         [d EXCEPT !.phase = "VERDICT",
            !.confidence = [defense |-> 62, prosecution |-> 55]]
    [] t.op = "verdict" -> [d EXCEPT !.verdict = TRUE]
    [] t.op = "epistemicMap" ->
         [d EXCEPT !.phase = "EPISTEMIC_MAP", !.epistemicMap = TRUE]

\* a pending timer fires: schedule's wrapper runs fn (cancelled is never set)
Fire ==
  /\ mode = "demo"
  /\ timers # {}
  /\ LET t == NextTimer IN
       /\ now' = t.at
       /\ timers' = timers \ {t}
       /\ demo' = Callback(demo, t)
       /\ streaming' = CASE t.op = "streamStart" -> streaming + 1
                         [] t.op = "streamEnd" -> streaming - 1
                         [] OTHER -> streaming
  /\ UNCHANGED << mode, timer_seq, isStarting, last_submit, clicks >>
  /\ UNCHANGED sessionVars
  /\ UNCHANGED auxVars

\* a trim that leaves the blanks in
TrimNothing(str) == str

\* String.prototype.trim on the inputs of the model
Trim(str) ==
  IF str \in {"", " "} THEN "" ELSE IF str = " Why? " THEN "Why?" ELSE str

\* DilemmaInput.handleSubmit then useDemoMode.startDebate: a blank dilemma
\* makes the handler return at once; otherwise the form locks and every callback of the debate is
\* scheduled.  The form is rendered while the phase is INTAKE.
DemoStartDebate(dilemma) ==
  /\ mode = "demo"
  /\ demo.phase = "INTAKE"
  /\ ~isStarting
  /\ IF Trim(dilemma) = ""
       THEN /\ last_submit' = [input |-> dilemma, accepted |-> FALSE]
            /\ UNCHANGED << isStarting, timers, timer_seq >>
       ELSE /\ last_submit' = [input |-> dilemma, accepted |-> TRUE]
            /\ isStarting' = TRUE
            /\ timers' =
                 timers \cup Schedule(startDebateSchedule, now, timer_seq)
            /\ timer_seq' = timer_seq + Len(startDebateSchedule)
  /\ UNCHANGED << mode, demo, now, clicks, streaming >>
  /\ UNCHANGED sessionVars
  /\ UNCHANGED auxVars

\* time the user lets pass before a click, in ms
ClickDelays == {0, 100, 799}

\* fault injection for C12: the button is rendered in every phase
DemoStartCrossExamAnyPhase(delay) ==
  /\ mode = "demo"
  /\ clicks < MaxClicks
  /\ \A t \in timers : now + delay <= t.at
  /\ now' = now + delay
  /\ clicks' = clicks + 1
  /\ timers' = timers \cup Schedule(startCrossExamSchedule, now + delay,
                                    timer_seq)
  /\ timer_seq' = timer_seq + Len(startCrossExamSchedule)
  /\ UNCHANGED << mode, demo, isStarting, last_submit, streaming >>
  /\ UNCHANGED sessionVars
  /\ UNCHANGED auxVars

\* App: the "Begin Cross-Examination" button, rendered while the phase is
\* AWAITING_CROSS_EXAM, calls useDemoMode.startCrossExam
DemoStartCrossExam(delay) ==
  /\ mode = "demo"
  /\ demo.phase = "AWAITING_CROSS_EXAM"
  /\ clicks < MaxClicks
  /\ \A t \in timers : now + delay <= t.at
  /\ now' = now + delay
  /\ clicks' = clicks + 1
  /\ timers' = timers \cup Schedule(startCrossExamSchedule, now + delay,
                                    timer_seq)
  /\ timer_seq' = timer_seq + Len(startCrossExamSchedule)
  /\ UNCHANGED << mode, demo, isStarting, last_submit, streaming >>
  /\ UNCHANGED sessionVars
  /\ UNCHANGED auxVars

\* PhaseIndicator.tsx ACTIVE_PHASES: the phases the intervention bar shows in
ACTIVE_PHASES ==
  { "DEFENSE_OPENING", "PROSECUTION_OPENING", "CROSS_EXAM_1", "CROSS_EXAM_2",
    "DEFENSE_CLOSING", "PROSECUTION_CLOSING" }

\* useDemoMode.sendIntervention: the directive is appended to
\* courtDirectives; no timer is cancelled
DemoSendIntervention(content) ==
  /\ mode = "demo"
  /\ demo.phase \in ACTIVE_PHASES
  /\ Len(demo.courtDirectives) < MaxDemoDirectives
  /\ demo' = [demo EXCEPT !.courtDirectives = Append(@, content)]
  /\ UNCHANGED << mode, timers, now, timer_seq, isStarting, last_submit, clicks,
                  streaming >>
  /\ UNCHANGED sessionVars
  /\ UNCHANGED auxVars

DemoNext ==
  \/ \E dilemma \in Dilemmas \cup {" "} : DemoStartDebate(dilemma)
  \/ \E delay \in ClickDelays : DemoStartCrossExam(delay)
  \/ \E content \in DirectiveTexts : DemoSendIntervention(content)
  \/ Fire

Next == SessionNext \/ DemoNext

Spec == Init /\ [][Next]_vars

\* the browser runs every pending timer, and the event loop runs the
\* orchestrator whenever it is ready to take its next step
FairSpec ==
  /\ Spec
  /\ WF_vars(Fire)
  /\ WF_vars(Start)
  /\ WF_vars(EnterCaseBrief)
  /\ WF_vars(EnterDiscovery)
  /\ WF_vars(StartFixedTurn)
  /\ WF_vars(FinishFixedTurn)
  /\ WF_vars(AfterTurn)

\* FairSpec, and a provider whose stream delivers its chunks and ends, a
\* transport that takes every message, an orchestrator that runs the Turn
\* that is due.  The external events (start, intervention, begin
\* cross-exam) stay unforced.
TurnFairSpec ==
  /\ FairSpec
  /\ WF_vars(\E has_content \in BOOLEAN : NextChunk(has_content))
  /\ WF_vars(SendToken)
  /\ WF_vars(StreamEnd)
  /\ WF_vars(StartTurn)

(* ------------------- Confidence Scorer (spec 4.5) ---------------------- *)
Roles == {"defense", "prosecution"}

\* the event kinds of the scoring table, and one kind the table lacks
EventKinds ==
  { "academic_source", "direct_rebuttal", "uncited_claim", "contradicted",
    "directive_ignored", "directive_addressed", "unknown" }

\* fault injection for C17: the kill shot costs what an uncited claim costs
DeltaFlat(kind) ==
  CASE kind = "academic_source" -> 5
    [] kind = "direct_rebuttal" -> 10
    [] kind = "uncited_claim" -> -5
    [] kind = "contradicted" -> -5
    [] kind = "directive_ignored" -> -8
    [] kind = "directive_addressed" -> 7
    [] OTHER -> 0

\* README scoring.py summary: +5 academic source, +10 direct rebuttal,
\* -5 uncited claim, -10 contradicted, -8 failed to address directive,
\* +7 addressed user intervention; an unknown kind is ignored
Delta(kind) ==
  CASE kind = "academic_source" -> 5
    [] kind = "direct_rebuttal" -> 10
    [] kind = "uncited_claim" -> -5
    [] kind = "contradicted" -> -10
    [] kind = "directive_ignored" -> -8
    [] kind = "directive_addressed" -> 7
    [] OTHER -> 0

\* fault injection for C16: the running score is not clamped
ClampNone(x) == x

\* spec 4.5: "All updates clamp the running score to [0, 100]"
Clamp(x) == IF x < 0 THEN 0 ELSE IF x > 100 THEN 100 ELSE x

\* the reducer: (current score, event) -> new score, for the targeted role
ApplyEvent(s, role, kind) == [s EXCEPT ![role] = Clamp(@ + Delta(kind))]

\* the ConfidenceUpdate message of the websocket protocol
ConfidenceUpdate(s) ==
  [type |-> "confidence_update", defense |-> s.defense,
   prosecution |-> s.prosecution]

\* a scoring event is folded into the session's pair and the new pair is
\* sent to the client; the socket delivers the updates in order, one at a time
ScoreEvent(role, kind) ==
  /\ conf_msg = NoMsg
  /\ scores' = ApplyEvent(scores, role, kind)
  /\ last_event' = [role |-> role, kind |-> kind]
  /\ conf_msg' = ConfidenceUpdate(ApplyEvent(scores, role, kind))
  /\ UNCHANGED ws
  /\ UNCHANGED << mode, sessionVars, demoVars, validatorVars, attempts >>
  /\ UNCHANGED clientVars

\* useDebateSocket handleMessage, case "confidence_update": the pair of the
\* message replaces the client's pair
HandleConfidenceUpdate ==
  /\ conf_msg # NoMsg
  /\ ws' = [ws EXCEPT !.confidence =
              [defense |-> conf_msg.defense,
               prosecution |-> conf_msg.prosecution]]
  /\ conf_msg' = NoMsg
  /\ UNCHANGED << scores, last_event >>
  /\ UNCHANGED << mode, sessionVars, demoVars, validatorVars, attempts >>
  /\ UNCHANGED clientVars

ScorerInit == Init /\ mode = "live"

ScorerNext ==
  \/ \E role \in Roles, kind \in EventKinds : ScoreEvent(role, kind)
  \/ HandleConfidenceUpdate

\* the Scorer and the client's confidence pair on their own, from the seed,
\* under every sequence of scoring events
ScorerSpec == ScorerInit /\ [][ScorerNext]_vars

(***************************************************************************)
(* Citation Validator.  validation.py is not among the sources; the        *)
(* validator is modelled from its description: extract every [TOOL:id]     *)
(* marker, look each id up in the evidence registry, flag the sentences    *)
(* that sound factual but cite nothing.  A text is a sequence of tokens:   *)
(* a plain word, a hedging keyword, a citation marker or a full stop.      *)
(***************************************************************************)
WORD == "Claim"

HEDGE_KEYWORDS == {"maybe"}

MARKERS == {"[TOOL:tool_001]", "[TOOL:tool_002]"}

STOP == "."

Tokens == {WORD, STOP} \cup HEDGE_KEYWORDS \cup MARKERS

EvidenceIds == {"tool_001", "tool_002"}

\* every token sequence of length 0..n
RECURSIVE TextsUpTo(_)
TextsUpTo(n) ==
  IF n = 0 THEN {<< >>}
  ELSE LET shorter == TextsUpTo(n - 1)
       IN shorter \cup
          {Append(t, k) : t \in {u \in shorter : Len(u) = n - 1}, k \in Tokens}

\* the id a marker token refers to: the text between "[TOOL:" and "]"
MarkerId(tok) ==
  CASE tok = "[TOOL:tool_001]" -> "tool_001"
    [] tok = "[TOOL:tool_002]" -> "tool_002"
    [] OTHER -> "none"

\* the token sequence cut at the full stops; pieces may be empty
RECURSIVE Split(_)
Split(toks) ==
  IF toks = << >> THEN << << >> >>
  ELSE LET rest == Split(Tail(toks))
       IN IF Head(toks) = STOP
            THEN << << >> >> \o rest
            ELSE << << Head(toks) >> \o Head(rest) >> \o Tail(rest)

NonEmpty(piece) == piece # << >>

\* the sentences of a text, in order
Sentences(toks) == SelectSeq(Split(toks), NonEmpty)

\* the marker ids of a sentence, in order of occurrence
RECURSIVE MarkerIds(_)
MarkerIds(sentence) ==
  IF sentence = << >> THEN << >>
  ELSE IF Head(sentence) \in MARKERS
         THEN << MarkerId(Head(sentence)) >> \o MarkerIds(Tail(sentence))
         ELSE MarkerIds(Tail(sentence))

AlwaysHedging(sentence) == TRUE

\* hedging/opinion sentence: contains a keyword of the configured list
IsHedging(sentence) ==
  \E i \in 1..Len(sentence) : sentence[i] \in HEDGE_KEYWORDS

\* ids of a sequence that the registry holds, in order
RECURSIVE Found(_, _)
Found(ids, registry) ==
  IF ids = << >> THEN << >>
  ELSE IF Head(ids) \in registry
         THEN << Head(ids) >> \o Found(Tail(ids), registry)
         ELSE Found(Tail(ids), registry)

\* does the sentence get an unsupported flag
Unsupported(sentence, registry) ==
  LET ids == MarkerIds(sentence)
  IN \/ ids = << >> /\ ~IsHedging(sentence)
     \/ \E i \in 1..Len(ids) : ids[i] \notin registry

ValidationFlag(i, sentence) ==
  [sentence |-> i, span |-> sentence, status |-> "unsupported"]

\* flags of sentences i..Len(ss), in order
RECURSIVE FlagsFrom(_, _, _)
FlagsFrom(ss, i, registry) ==
  IF i > Len(ss) THEN << >>
  ELSE IF Unsupported(ss[i], registry)
         THEN << ValidationFlag(i, ss[i]) >> \o FlagsFrom(ss, i + 1, registry)
         ELSE FlagsFrom(ss, i + 1, registry)

\* the validator: (text, registry) -> resolved citations and flags
Validate(toks, registry) ==
  [resolved |-> Found(MarkerIds(toks), registry),
   flags    |-> FlagsFrom(Sentences(toks), 1, registry)]

\* a finished Turn's text and the registry built by research reach the
\* validator
LoadCase(toks, registry) ==
  /\ text = << >>
  /\ runs = 0
  /\ toks # << >>
  /\ text' = toks
  /\ evidence' = registry
  /\ UNCHANGED << validation, prev_validation, runs >>
  /\ UNCHANGED scorerVars
  /\ UNCHANGED attempts
  /\ UNCHANGED clientVars
  /\ UNCHANGED demoVars
  /\ UNCHANGED << mode, current_phase, opc, next_role, round, turn, running,
                  turn_count, start_queue, intervention_queue, dir_count,
                  transcript, court_directives, sink, consumed, outcomes,
                  last_error >>

RegisterCited(toks, registry) ==
  registry \cup {MarkerIds(toks)[i] : i \in 1..Len(MarkerIds(toks))}

\* what a validator run leaves in the registry: the registry itself
RegistryAfter(toks, registry) == registry

RunValidator ==
  /\ text # << >>
  /\ runs < MaxRuns
  /\ validation' = Validate(text, evidence)
  /\ prev_validation' = validation
  /\ runs' = runs + 1
  /\ evidence' = RegistryAfter(text, evidence)
  /\ UNCHANGED text
  /\ UNCHANGED scorerVars
  /\ UNCHANGED attempts
  /\ UNCHANGED clientVars
  /\ UNCHANGED demoVars
  /\ UNCHANGED << mode, current_phase, opc, next_role, round, turn, running,
                  turn_count, start_queue, intervention_queue, dir_count,
                  transcript, court_directives, sink, consumed, outcomes,
                  last_error >>

ValidatorInit == Init /\ mode = "live"

ValidatorNext ==
  \/ /\ runs = 0
     /\ text = << >>
     /\ \E toks \in TextsUpTo(MaxTokens), registry \in SUBSET EvidenceIds :
          LoadCase(toks, registry)
  \/ RunValidator

ValidatorSpec == ValidatorInit /\ [][ValidatorNext]_vars

(***************************************************************************)
(* Provider failure.  run_agent_turn has no handler around its stream      *)
(* loop, so an error raised by the provider leaves it as an exception: no  *)
(* Transcript record, no message, no Directive taken.  What the caller     *)
(* does with it (run_debate is not among the sources) follows the error    *)
(* handling design: one retry of the Turn, then a terminal error state.    *)
(***************************************************************************)
RetryAlways(n) == TRUE

\* ProviderFailure is "retried once at Turn granularity"
RetryAllowed(n) == n < 1

\* where the orchestrator re-enters to run the Turn of phase p again
RetryPoint(p) ==
  CASE p = "DISCOVERY" -> "discovery"
    [] p = "VERDICT" -> "verdict"
    [] OTHER -> "run_turn"

\* "async for chunk in stream" raises: the invocation ends by exception
ProviderFail ==
  /\ turn.pc \in {"await_chunk", "fixed"}
  /\ outcomes' = Append(outcomes, "failed")
  /\ running' = Return(turn.id)
  /\ turn' = NoTurn
  /\ opc' = "failed"
  /\ UNCHANGED demoVars
  /\ UNCHANGED auxVars
  /\ UNCHANGED << mode, current_phase, next_role, round, turn_count,
                  start_queue, intervention_queue, dir_count, transcript,
                  court_directives, evidence, sink, consumed, last_error >>

\* the failed outcome reaches the orchestrator: the first failure of a Turn
\* runs the Turn again, the second one is fatal for the Session
HandleFailure ==
  /\ opc = "failed"
  /\ IF RetryAllowed(attempts)
       THEN /\ attempts' = attempts + 1
            /\ opc' = RetryPoint(current_phase)
            /\ UNCHANGED last_error
       ELSE /\ opc' = "error"
            /\ last_error' = "ProviderFailure"
            /\ UNCHANGED attempts
  /\ UNCHANGED demoVars
  /\ UNCHANGED << scorerVars, validatorVars >>
  /\ UNCHANGED clientVars
  /\ UNCHANGED << mode, current_phase, next_role, round, turn, running,
                  turn_count, start_queue, intervention_queue, dir_count,
                  transcript, court_directives, evidence, sink, consumed,
                  outcomes >>

FailureInit == Init /\ mode = "live"

FailureNext == SessionNext \/ ProviderFail \/ HandleFailure

FailureSpec == FailureInit /\ [][FailureNext]_vars

(***************************************************************************)
(* Citations on the client: CourtPanel builds sourceMap from the evidence  *)
(* list, extractCitationIds and InlineText resolve the markers of a text   *)
(* against it, EvidenceTrail numbers the evidence cards.  A text is a      *)
(* token sequence: a word, a [TOOL:id] marker, or a bare tool_xxxx id.     *)
(***************************************************************************)
\* an id of the bare form tool_[a-f0-9]{4,8}
BARE_ID == "tool_00a1"

PanelIds == EvidenceIds \cup {BARE_ID}

PanelTokens == {WORD, BARE_ID} \cup MARKERS

\* every sequence over S of length 0..n
RECURSIVE SeqsUpTo(_, _)
SeqsUpTo(S, n) ==
  IF n = 0 THEN {<< >>}
  ELSE LET shorter == SeqsUpTo(S, n - 1)
       IN shorter \cup
          {Append(t, k) : t \in {u \in shorter : Len(u) = n - 1}, k \in S}

\* evidence lists: every item has its own id
EvidenceLists ==
  {e \in SeqsUpTo(PanelIds, MaxEvidence) :
     \A i, j \in 1..Len(e) : e[i] = e[j] => i = j}

\* the id a token cites: m[1] ?? m[2] of the pattern, "none" for plain text
TokenId(tok) ==
  IF tok \in MARKERS THEN MarkerId(tok)
  ELSE IF tok = BARE_ID THEN tok
  ELSE "none"

\* map.set(evidence[i].id, {index: i + 1, evidenceId}) for i = 0..length-1:
\* a later item with the same id replaces the entry
EvidenceEntries(items) ==
  [id \in {items[i] : i \in 1..Len(items)} |->
     [index |-> CHOOSE i \in 1..Len(items) :
                  /\ items[i] = id
                  /\ \A j \in (i + 1)..Len(items) : items[j] # id,
      evidenceId |-> id]]

\* sourceMap: the evidence entries, and for a tool call whose result_id is
\* not yet a key the entry of the evidence item with that id, if there is one
SourceMap(items, toolCalls) ==
  LET first == EvidenceEntries(items)
      extra == {rid \in toolCalls :
                  /\ rid \notin DOMAIN first
                  /\ \E i \in 1..Len(items) : items[i] = rid}
  IN [id \in DOMAIN first \cup extra |->
        IF id \in DOMAIN first THEN first[id]
        ELSE first[CHOOSE e \in DOMAIN first : e = id]]

\* extractCitationIds: the entries of the cited ids, each evidence once
RECURSIVE extractCitationIds(_, _, _)
extractCitationIds(toks, sourceMap, seen) ==
  IF toks = << >> THEN << >>
  ELSE LET id == TokenId(Head(toks))
       IN IF id \in DOMAIN sourceMap /\ sourceMap[id].evidenceId \notin seen
            THEN << sourceMap[id] >> \o
                 extractCitationIds(Tail(toks), sourceMap,
                                    seen \cup {sourceMap[id].evidenceId})
            ELSE extractCitationIds(Tail(toks), sourceMap, seen)

\* a citation rendered for every id, known or not
renderCitationAlways(id, sourceMap) ==
  [kind |-> "button", index |-> 1, evidenceId |-> id]

\* renderCitation: null without an entry, otherwise the button "[index]"
\* that jumps to the evidence
renderCitation(id, sourceMap) ==
  IF id \notin DOMAIN sourceMap
    THEN [kind |-> "null", index |-> 0, evidenceId |-> "none"]
    ELSE [kind |-> "button", index |-> sourceMap[id].index,
          evidenceId |-> sourceMap[id].evidenceId]

\* InlineText: one element per part of the text
InlineText(toks, sourceMap) ==
  [i \in 1..Len(toks) |->
     IF TokenId(toks[i]) # "none"
       THEN renderCitation(TokenId(toks[i]), sourceMap)
       ELSE [kind |-> "span", index |-> 0, evidenceId |-> "none"]]

\* EvidenceTrail: evidence.map((ev, i) => EvidenceCard index = i + 1)
EvidenceCards(items) ==
  [i \in 1..Len(items) |-> [index |-> i, id |-> items[i]]]

\* the props reach the panels
LoadPanel(toks, items, toolCalls) ==
  /\ panel = NoPanel
  /\ toks # << >>
  /\ panel' = [panel EXCEPT !.text = toks, !.evidence = items,
                            !.toolCalls = toolCalls]
  /\ UNCHANGED << scores, last_event, conf_msg, ws, text, validation,
                  prev_validation, runs, attempts >>
  /\ UNCHANGED << hookVars, msgVars, bar >>
  /\ UNCHANGED << mode, sessionVars, demoVars >>

\* CourtPanel and EvidenceTrail render
RenderPanel ==
  /\ panel.text # << >>
  /\ ~panel.rendered
  /\ LET sourceMap == SourceMap(panel.evidence, panel.toolCalls)
     IN panel' =
          [panel EXCEPT
             !.rendered = TRUE,
             !.citations = extractCitationIds(panel.text, sourceMap, {}),
             !.inline = InlineText(panel.text, sourceMap),
             !.cards = EvidenceCards(panel.evidence)]
  /\ UNCHANGED << scores, last_event, conf_msg, ws, text, validation,
                  prev_validation, runs, attempts >>
  /\ UNCHANGED << hookVars, msgVars, bar >>
  /\ UNCHANGED << mode, sessionVars, demoVars >>

PanelInit == Init /\ mode = "live"

PanelNext ==
  \/ /\ panel = NoPanel
     /\ \E toks \in SeqsUpTo(PanelTokens, MaxTokens),
           items \in EvidenceLists, toolCalls \in SUBSET PanelIds :
          LoadPanel(toks, items, toolCalls)
  \/ RenderPanel

PanelSpec == PanelInit /\ [][PanelNext]_vars

(***************************************************************************)
(* useDebateSocket's connection handling and App's choice between the     *)
(* live socket and demo mode.  A socket is "connecting", "open",           *)
(* "closing" (close() called or the connection lost, close event not yet  *)
(* dispatched) or "closed".  Every socket keeps the handlers connect()    *)
(* gave it, whatever wsRef points to later.  React renders after state    *)
(* updates, not inside them: updates of events that arrive before the     *)
(* scheduled render are rendered together.                                *)
(***************************************************************************)
\* everything the hook actions leave alone
hookFrame ==
  << mode, sessionVars, demoVars, scores, last_event, conf_msg,
     validatorVars, attempts, panel, msgVars, bar >>

\* the phases a phase_change message of the model announces
LivePhases == {"CASE_BRIEF"}

\* a state update reaches React: a render is due; history: the socket has
\* been connected with the live phase past INTAKE
Updated(w, a) ==
  [a EXCEPT !.dirty = TRUE,
            !.wasLive = @ \/ (w.connected /\ w.phase # "INTAKE")]

\* connect(): nothing if the referenced socket is open, otherwise a new
\* WebSocket is created and referenced
ConnectOpens == wsRef = 0 \/ sockets[wsRef] # "open"

ConnectSockets ==
  IF ConnectOpens THEN Append(sockets, "connecting") ELSE sockets

ConnectRef == IF ConnectOpens THEN Len(sockets) + 1 ELSE wsRef

\* ws.close(): a socket that is connecting or open starts closing
Closed(ss, i) ==
  IF i # 0 /\ ss[i] \in {"connecting", "open"}
    THEN [ss EXCEPT ![i] = "closing"]
    ELSE ss

\* useEffect(() => { connect(); ... }, [connect]) on mount
Mount ==
  /\ hookpc = "init"
  /\ hookpc' = "mounted"
  /\ sockets' = ConnectSockets
  /\ wsRef' = ConnectRef
  /\ UNCHANGED << rtimers, timerRef, url_changes, app, ws >>
  /\ UNCHANGED hookFrame

\* ws.onopen
SocketOpen(i) ==
  /\ sockets[i] = "connecting"
  /\ sockets' = [sockets EXCEPT ![i] = "open"]
  /\ ws' = [ws EXCEPT !.connected = TRUE]
  /\ app' = Updated([ws EXCEPT !.connected = TRUE], app)
  /\ UNCHANGED << wsRef, rtimers, timerRef, hookpc, url_changes >>
  /\ UNCHANGED hookFrame

\* the connection fails or is lost; ws.onerror calls ws.close(), which
\* changes nothing if the browser is closing the socket already; the close
\* event is then due
SocketError(i) ==
  /\ sockets[i] \in {"connecting", "open"}
  /\ sockets' = Closed(sockets, i)
  /\ UNCHANGED << wsRef, rtimers, timerRef, hookpc, url_changes, app, ws >>
  /\ UNCHANGED hookFrame

\* ws.onclose: connected: false, reconnectTimer.current = setTimeout(connect)
SocketClose(i) ==
  /\ sockets[i] = "closing"
  /\ sockets' = [sockets EXCEPT ![i] = "closed"]
  /\ ws' = [ws EXCEPT !.connected = FALSE]
  /\ app' = Updated([ws EXCEPT !.connected = FALSE], app)
  /\ rtimers' = rtimers \cup {i}
  /\ timerRef' = i
  /\ UNCHANGED << wsRef, hookpc, url_changes >>
  /\ UNCHANGED hookFrame

\* a reconnect timer fires: connect()
ReconnectTimer(t) ==
  /\ t \in rtimers
  /\ ConnectOpens => Len(sockets) < MaxSockets
  /\ rtimers' = rtimers \ {t}
  /\ sockets' = ConnectSockets
  /\ wsRef' = ConnectRef
  /\ UNCHANGED << timerRef, hookpc, url_changes, app, ws >>
  /\ UNCHANGED hookFrame

\* clearTimeout(reconnectTimer.current)
ClearTimeout(ts) == ts \ {timerRef}

\* the effect's cleanup on unmount: clearTimeout, wsRef.current?.close()
Unmount ==
  /\ hookpc = "mounted"
  /\ hookpc' = "unmounted"
  /\ rtimers' = ClearTimeout(rtimers)
  /\ sockets' = Closed(sockets, wsRef)
  /\ UNCHANGED << wsRef, timerRef, url_changes, app, ws >>
  /\ UNCHANGED hookFrame

\* the url changes: the cleanup runs, then the effect runs connect() again
ChangeUrl ==
  /\ hookpc = "mounted"
  /\ url_changes < MaxUrlChanges
  /\ Len(sockets) < MaxSockets
  /\ url_changes' = url_changes + 1
  /\ rtimers' = ClearTimeout(rtimers)
  /\ LET closed == Closed(sockets, wsRef)
     IN IF wsRef = 0 \/ closed[wsRef] # "open"
          THEN /\ sockets' = Append(closed, "connecting")
               /\ wsRef' = Len(sockets) + 1
          ELSE /\ sockets' = closed
               /\ wsRef' = wsRef
  /\ UNCHANGED << timerRef, hookpc, app, ws >>
  /\ UNCHANGED hookFrame

\* ws.onmessage with a phase_change message
PhaseChange(i, p) ==
  /\ sockets[i] = "open"
  /\ ws.phase # p
  /\ ws' = [ws EXCEPT !.phase = p]
  /\ app' = Updated([ws EXCEPT !.phase = p], app)
  /\ UNCHANGED << sockets, wsRef, rtimers, timerRef, hookpc, url_changes >>
  /\ UNCHANGED hookFrame

\* App renders: startedLive is latched, useDemo is computed
Render ==
  /\ hookpc = "mounted"
  /\ app.dirty
  /\ LET started == app.startedLive \/ (ws.connected /\ ws.phase # "INTAKE")
     IN app' = [app EXCEPT !.startedLive = started,
                           !.useDemo = ~ws.connected /\ ~started,
                           !.dirty = FALSE]
  /\ UNCHANGED << sockets, wsRef, rtimers, timerRef, hookpc, url_changes,
                  ws >>
  /\ UNCHANGED hookFrame

SocketInit == Init /\ mode = "live"

SocketNext ==
  \/ Mount
  \/ \E i \in 1..Len(sockets) : SocketOpen(i)
  \/ \E i \in 1..Len(sockets) : SocketError(i)
  \/ \E i \in 1..Len(sockets) : SocketClose(i)
  \/ \E t \in rtimers : ReconnectTimer(t)
  \/ Unmount
  \/ ChangeUrl
  \/ \E i \in 1..Len(sockets), p \in LivePhases : PhaseChange(i, p)
  \/ Render

SocketSpec == SocketInit /\ [][SocketNext]_vars

\* the same hook with React rendering after every single state update
EagerRenderNext == Render \/ (~app.dirty /\ SocketNext)

EagerRenderSpec == SocketInit /\ [][EagerRenderNext]_vars

(* ======================= useDebateSocket: handleMessage ================= *)
\* the agent_stream messages handled in one run of the model
MaxStreamMsgs == 3

\* the tool_call and tool_result messages handled in one run of the model
MaxToolMsgs == 3

\* types.ts AgentRole
AgentRole == {"defense", "prosecution", "researcher", "judge"}

\* the content of an agent_stream message: one token
StreamContents == {"a", "b"}

\* the agent_stream messages of the model (interrupted absent = FALSE)
StreamMessages ==
  [ type : {"agent_stream"}, agent : AgentRole, content : StreamContents,
    done : BOOLEAN, interrupted : BOOLEAN ]

\* a handler that puts the new content in front of the text held
StreamUpdatesPrepend(prev, msg) ==
  LET active == IF msg.done THEN "null" ELSE msg.agent
  IN  [prev EXCEPT !.activeAgent = active,
                   !.defenseText = << msg.content >> \o @]

\* the agent_stream case of handleMessage: { ...prev, ...updates }
StreamUpdates(prev, msg) ==
  LET active == IF msg.done THEN "null" ELSE msg.agent
  IN  CASE msg.agent = "defense" ->
             [prev EXCEPT !.activeAgent = active,
                          !.defenseText = @ \o << msg.content >>,
                          !.defenseInterrupted = @ \/ msg.interrupted]
        [] msg.agent = "prosecution" ->
             [prev EXCEPT !.activeAgent = active,
                          !.prosecutionText = @ \o << msg.content >>,
                          !.prosecutionInterrupted = @ \/ msg.interrupted]
        [] msg.agent = "researcher" ->
             [prev EXCEPT !.activeAgent = active,
                          !.researcherText = @ \o << msg.content >>]
        [] msg.agent = "judge" ->
             [prev EXCEPT !.activeAgent = active,
                          !.judgeText = @ \o << msg.content >>]
        [] OTHER -> [prev EXCEPT !.activeAgent = active]

\* everything handleMessage leaves alone
messageFrame ==
  << mode, sessionVars, demoVars, scores, last_event, conf_msg,
     validatorVars, attempts, panel, hookVars, bar >>

\* ws.onmessage with an agent_stream message
AgentStream(msg) ==
  /\ mode = "live"
  /\ Len(received) < MaxStreamMsgs
  /\ ws' = StreamUpdates(ws, msg)
  /\ received' = Append(received, msg)
  /\ UNCHANGED << messageFrame, toolCallCounter >>

StreamInit == Init /\ mode = "live"

StreamNext == \E msg \in StreamMessages : AgentStream(msg)

StreamSpec == StreamInit /\ [][StreamNext]_vars

\* the agents, tools, queries and results of the tool messages of the model
ToolAgents == {"researcher", "defense"}
ToolNames == {"web_search", "fetch_page"}
ToolQueries == {"q1", "q2"}
ToolResults == {"r1", "r2"}

\* the snippet that comes with a result
SnippetOf(result_id) == << "snippet", result_id >>

ToolCallMessages ==
  [ type : {"tool_call"}, agent : ToolAgents, tool : ToolNames,
    query : ToolQueries, status : {"pending", "complete"} ]

ToolResultMessages ==
  [ type : {"tool_result"}, agent : ToolAgents, tool : ToolNames,
    result_id : ToolResults ]

\* snippet and result_id of a ToolCallEvent that has none
NoResult == "undefined"

\* the tool_call case of handleMessage
ToolCallUpdate(calls, msg, tcId) ==
  IF msg.status = "complete"
    THEN LET done(tc) ==
               IF tc.tool = msg.tool /\ tc.query = msg.query
                  /\ tc.status = "pending"
                 THEN [tc EXCEPT !.status = "complete"]
                 ELSE tc
         IN  [i \in 1..Len(calls) |-> done(calls[i])]
    ELSE Append(calls,
                [ id |-> tcId, agent |-> msg.agent, tool |-> msg.tool,
                  query |-> msg.query, status |-> msg.status,
                  snippet |-> NoResult, result_id |-> NoResult ])

\* the tool_result case of handleMessage
ToolResultUpdate(calls, msg) ==
  LET attach(tc) ==
        IF tc.tool = msg.tool /\ tc.agent = msg.agent
          THEN [tc EXCEPT !.status = "complete",
                          !.snippet = SnippetOf(msg.result_id),
                          !.result_id = msg.result_id]
          ELSE tc
  IN  [i \in 1..Len(calls) |-> attach(calls[i])]

\* ws.onmessage with a tool_call message; the counter advances for every
\* message, whatever its status
ToolCall(msg) ==
  /\ mode = "live"
  /\ Len(received) < MaxToolMsgs
  /\ toolCallCounter' = toolCallCounter + 1
  /\ ws' = [ws EXCEPT !.toolCalls = ToolCallUpdate(@, msg, toolCallCounter)]
  /\ received' = Append(received, msg)
  /\ UNCHANGED messageFrame

\* ws.onmessage with a tool_result message
ToolResult(msg) ==
  /\ mode = "live"
  /\ Len(received) < MaxToolMsgs
  /\ ws' = [ws EXCEPT !.toolCalls = ToolResultUpdate(@, msg)]
  /\ received' = Append(received, msg)
  /\ UNCHANGED << messageFrame, toolCallCounter >>

ToolInit == Init /\ mode = "live"

ToolNext ==
  \/ \E msg \in ToolCallMessages : ToolCall(msg)
  \/ \E msg \in ToolResultMessages : ToolResult(msg)

ToolSpec == ToolInit /\ [][ToolNext]_vars

(* ======================= InterventionBar ================================ *)
\* the submits of the intervention bar in one run of the model
MaxSubmits == 2

\* what the user types into the bar
BarInputs == {"", " ", " Why? ", "Why?"}

\* what the component returns for its props: null, the Interrupt button, or
\* the input with its Submit button
BarView(phase, interruptPending) ==
  IF phase \notin { "DEFENSE_OPENING", "PROSECUTION_OPENING" }
     /\ ~interruptPending
    THEN "hidden"
    ELSE IF ~interruptPending THEN "button" ELSE "input"

\* a submit handler that passes on whatever the input holds
handleSubmitRaw(b) ==
  [b EXCEPT !.calls = Append(@, b.input), !.input = ""]

\* handleSubmit: nothing for a blank input, otherwise onIntervene(trimmed)
\* and setInput("")
handleSubmit(b) ==
  IF Trim(b.input) = ""
    THEN b
    ELSE [b EXCEPT !.calls = Append(@, Trim(b.input)), !.input = ""]

barFrame ==
  << mode, sessionVars, demoVars, scorerVars, validatorVars, attempts,
     panel, hookVars, msgVars >>

\* the parent renders the bar with new props; the input state is kept
BarProps(phase, interruptPending) ==
  /\ mode = "live"
  /\ << phase, interruptPending >> # << bar.phase, bar.interruptPending >>
  /\ bar' = [bar EXCEPT !.phase = phase,
                        !.interruptPending = interruptPending,
                        !.shown = BarView(phase, interruptPending)]
  /\ UNCHANGED barFrame

\* onChange of the input
TypeInput(str) ==
  /\ mode = "live"
  /\ bar.shown = "input"
  /\ str # bar.input
  /\ bar' = [bar EXCEPT !.input = str]
  /\ UNCHANGED barFrame

\* Enter in the input, or a click on Submit (disabled while the input is
\* blank)
BarSubmit ==
  /\ mode = "live"
  /\ bar.shown = "input"
  /\ bar.submits < MaxSubmits
  /\ bar' = [handleSubmit(bar) EXCEPT !.submits = @ + 1]
  /\ UNCHANGED barFrame

BarInit == Init /\ mode = "live"

BarNext ==
  \/ \E phase \in Phases, interruptPending \in BOOLEAN :
       BarProps(phase, interruptPending)
  \/ \E str \in BarInputs : TypeInput(str)
  \/ BarSubmit

BarSpec == BarInit /\ [][BarNext]_vars

(* ======================= properties ==================================== *)
\* the last record of the Transcript
LastTurn == transcript[Len(transcript)]

\* the content of the agent_stream messages sent with done = false
RECURSIVE Forwarded(_)
Forwarded(msgs) ==
  IF msgs = << >> THEN << >>
  ELSE IF Head(msgs).done THEN Forwarded(Tail(msgs))
       ELSE << Head(msgs).content >> \o Forwarded(Tail(msgs))

C2_ExclusiveFlags ==
  /\ Len(transcript) = Len(outcomes)
  /\ \A i \in 1..Len(transcript) :
       /\ outcomes[i] \in {"exhausted", "directive"}
       /\ transcript[i].interrupted <=> outcomes[i] = "directive"
       /\ ~transcript[i].interrupted <=> outcomes[i] = "exhausted"

\* C2 witness: the Transcript holds a Turn stopped by a Directive and a Turn
\* that ended naturally
C2_Witness ==
  /\ \E i \in 1..Len(transcript) :
       transcript[i].interrupted /\ outcomes[i] = "directive"
  /\ \E i \in 1..Len(transcript) :
       /\ ~transcript[i].interrupted
       /\ outcomes[i] = "exhausted"
       /\ transcript[i].agent \in {"defense", "prosecution"}

C4_InterruptionFollowUp ==
  [][ /\ (turn.pc \in {"notify", "directive", "research"}) =>
           current_phase' = current_phase
      /\ (opc = "returned" /\ LastTurn.interrupted) =>
           current_phase' = current_phase
      /\ ( /\ turn'.id # turn.id
           /\ turn'.pc = "await_chunk"
           /\ transcript # << >>
           /\ LastTurn.interrupted ) =>
           /\ turn'.role = Opposing(LastTurn.agent)
           /\ turn'.role # LastTurn.agent
           /\ Len(court_directives) = Len(consumed)
           /\ court_directives[Len(court_directives)].id =
                consumed[Len(consumed)].id
           /\ court_directives[Len(court_directives)].injected_after =
                current_phase
           /\ court_directives[Len(court_directives)].new_evidence
                \subseteq evidence
           /\ turn'.context.directive = consumed[Len(consumed)].content
           /\ turn'.context.directive \in DirectiveTexts
           /\ turn'.context.new_evidence =
                court_directives[Len(court_directives)].new_evidence
           /\ turn'.context.partial = LastTurn.content ]_vars

\* C4 witness: the prosecution speaks in DEFENSE_OPENING with the Directive
\* in its context, after the interrupted defense and the merged research
C4_Witness ==
  /\ current_phase = "DEFENSE_OPENING"
  /\ turn.pc = "await_chunk"
  /\ turn.role = "prosecution"
  /\ turn.context.directive \in DirectiveTexts
  /\ "tool_002" \in evidence
  /\ LastTurn.interrupted
  /\ LastTurn.agent = "defense"

\* README "Interruptible phases": the openings and the cross-examination
InterruptEligible ==
  { "DEFENSE_OPENING", "PROSECUTION_OPENING", "CROSS_EXAM_1", "CROSS_EXAM_2" }

\* C5: an interrupt issued outside an interrupt-eligible phase, or while no
\* Turn is active, enqueues no Directive: the channel grows only in an
\* eligible phase with a Turn active
C5_InterruptRejected ==
  [][ Len(intervention_queue') > Len(intervention_queue) =>
        (current_phase \in InterruptEligible /\ running # {}) ]_vars

\* C6: the Directive Channel holds at most one unconsumed Directive
C6_AtMostOnePending == Len(intervention_queue) <= 1

\* C7: every Directive is consumed at most once: no Directive is taken off
\* the channel twice, and a Directive that was taken is no longer on it
C7_ConsumedOnce ==
  /\ \A i, j \in 1..Len(consumed) :
       i # j => consumed[i].id # consumed[j].id
  /\ \A i \in 1..Len(consumed) : \A k \in 1..Len(intervention_queue) :
       intervention_queue[k].id # consumed[i].id
  /\ Len(consumed) =
       Cardinality({ i \in 1..Len(transcript) : transcript[i].interrupted })

\* C7 witness: two Directives were consumed, by two Turns
C7_Witness ==
  /\ Len(consumed) = 2
  /\ Cardinality({ i \in 1..Len(transcript) : transcript[i].interrupted }) = 2

\* C8: the Transcript is append-only: every step leaves it unchanged or adds
\* exactly one record at its end, the records before it unchanged
C8_AppendOnly ==
  [][ \/ transcript' = transcript
      \/ /\ Len(transcript') = Len(transcript) + 1
         /\ SubSeq(transcript', 1, Len(transcript)) = transcript ]_vars

\* C8 witness: records of complete and of interrupted Turns were appended
C8_Witness ==
  /\ Len(transcript) >= 3
  /\ transcript[2].interrupted
  /\ ~transcript[3].interrupted

\* the place of a phase in the forward order; the two cross-examination
\* phases are one repeatable step
Rank(p) ==
  CASE p = "INTAKE" -> 1
    [] p = "CASE_BRIEF" -> 2
    [] p = "DISCOVERY" -> 3
    [] p = "DEFENSE_OPENING" -> 4
    [] p = "PROSECUTION_OPENING" -> 5
    [] p = "AWAITING_CROSS_EXAM" -> 6
    [] p \in {"CROSS_EXAM_1", "CROSS_EXAM_2"} -> 7
    [] p = "DEFENSE_CLOSING" -> 8
    [] p = "PROSECUTION_CLOSING" -> 9
    [] p = "VERDICT" -> 10
    [] p = "EPISTEMIC_MAP" -> 11
    [] p = "COMPLETE" -> 12
    [] OTHER -> 0

\* C9: the Phase only moves forward: no step leads to an earlier phase, and
\* a step that keeps the place in the order either keeps the phase or moves
\* within the cross-examination step
C9_PhaseForward ==
  [][ /\ Rank(current_phase') >= Rank(current_phase)
      /\ Rank(demo'.phase) >= Rank(demo.phase)
      /\ (current_phase' # current_phase
            /\ Rank(current_phase') = Rank(current_phase)) =>
           current_phase' \in {"CROSS_EXAM_1", "CROSS_EXAM_2"}
      /\ (demo'.phase # demo.phase /\ Rank(demo'.phase) = Rank(demo.phase)) =>
           demo'.phase \in {"CROSS_EXAM_1", "CROSS_EXAM_2"} ]_vars

\* C9 witness: the demo reached the terminal phase after the cross-exam
\* step was entered for each of its exchanges
C9_Witness ==
  /\ demo.phase = "EPISTEMIC_MAP"
  /\ Len(demo.crossExamMessages) >= NumExchanges
  /\ demo.verdict

\* C10: after a start the phases INTAKE, CASE_BRIEF, DISCOVERY,
\* DEFENSE_OPENING follow in exactly this order, none skipped or repeated,
\* while the phase is CASE_BRIEF no Turn runs and none has run, and a
\* started session does reach DEFENSE_OPENING
C10_OpeningOrder ==
  /\ [][ /\ demo'.phase # demo.phase =>
              /\ demo.phase = "INTAKE" => demo'.phase = "CASE_BRIEF"
              /\ demo.phase = "CASE_BRIEF" => demo'.phase = "DISCOVERY"
              /\ demo.phase = "DISCOVERY" => demo'.phase = "DEFENSE_OPENING"
              /\ demo'.phase \notin {"INTAKE", "CASE_BRIEF", "DISCOVERY"} \/
                   Rank(demo'.phase) = Rank(demo.phase) + 1
         /\ current_phase' # current_phase =>
              /\ current_phase = NoPhase => current_phase' = "INTAKE"
              /\ current_phase = "INTAKE" => current_phase' = "CASE_BRIEF"
              /\ current_phase = "CASE_BRIEF" => current_phase' = "DISCOVERY"
              /\ current_phase = "DISCOVERY" =>
                   current_phase' = "DEFENSE_OPENING"
              /\ current_phase' \notin {"INTAKE", "CASE_BRIEF", "DISCOVERY"} \/
                   Rank(current_phase') = Rank(current_phase) + 1 ]_vars
  /\ [](demo.phase = "CASE_BRIEF" =>
          /\ demo.activeAgent = "null"
          /\ streaming = 0
          /\ demo.toolCalls = << >>
          /\ demo.defenseText = << >>
          /\ demo.prosecutionText = << >>)
  /\ [](current_phase = "CASE_BRIEF" =>
          /\ running = {}
          /\ turn.pc = "idle"
          /\ transcript = << >>)
  /\ ((isStarting /\ demo.phase = "INTAKE") ~>
        demo.phase = "DEFENSE_OPENING")
  /\ (current_phase = "INTAKE" ~> current_phase = "DEFENSE_OPENING")

\* C10 witness: the demo started with a non-empty dilemma shows the defense
\* opening, the case brief and the research before it
C10_Witness ==
  /\ demo.phase = "DEFENSE_OPENING"
  /\ demo.caseBrief
  /\ Len(demo.toolCalls) = NumToolCalls
  /\ Len(demo.defenseText) >= 1
  /\ isStarting

\* C11: in AWAITING_CROSS_EXAM nothing automatic changes the phase: while no
\* trigger has arrived no timer is pending and no Turn runs, no error is
\* raised, and the phase is left only by the begin-cross-exam trigger (in
\* the demo by a callback of startCrossExam, after a click)
C11_AwaitingHolds ==
  /\ []((demo.phase = "AWAITING_CROSS_EXAM" /\ clicks = 0) =>
          (timers = {} /\ streaming = 0 /\ demo.activeAgent = "null"))
  /\ [](current_phase = "AWAITING_CROSS_EXAM" =>
          (opc = "awaiting" /\ running = {} /\ last_error = "none"))
  /\ [][ /\ (demo.phase = "AWAITING_CROSS_EXAM" /\ demo'.phase # demo.phase)
              => (clicks >= 1 /\ demo'.phase = "CROSS_EXAM_1")
         /\ (current_phase = "AWAITING_CROSS_EXAM"
               /\ current_phase' # current_phase)
              => (opc = "awaiting" /\ opc' = "run_turn"
                    /\ current_phase' = "CROSS_EXAM_1"
                    /\ transcript' = transcript) ]_vars

\* C11 witness: the demo waits in AWAITING_CROSS_EXAM after both openings,
\* with no click made and a directive submitted during the openings
C11_Witness ==
  /\ demo.phase = "AWAITING_CROSS_EXAM"
  /\ clicks = 0
  /\ timers = {}
  /\ Len(demo.prosecutionText) = MockTextLen
  /\ Len(demo.courtDirectives) = 1

\* the pending callbacks that startCrossExam scheduled
CrossExamTimers(ts) ==
  { t \in ts : t.op \in {"xStart", "xChar", "xDone", "verdictPhase",
                         "verdict", "epistemicMap"} }

C13_BoundedCrossExam ==
  /\ [](/\ Len(demo.crossExamMessages) <= NumExchanges
        /\ \A i \in 1..(Len(demo.crossExamMessages) - 1) :
             demo.crossExamMessages[i].agent #
               demo.crossExamMessages[i + 1].agent
        /\ round <= MaxRounds)
  /\ [][ /\ demo.phase = "EPISTEMIC_MAP" => demo'.phase = "EPISTEMIC_MAP"
         /\ current_phase = "EPISTEMIC_MAP" =>
              current_phase' = "EPISTEMIC_MAP" ]_vars
  /\ ((clicks >= 1 /\ demo.phase = "AWAITING_CROSS_EXAM") ~>
        demo.phase = "VERDICT")
  /\ (clicks >= 1 ~> [](demo.phase = "EPISTEMIC_MAP"))

\* cross-examination in the demo: termination alone, whatever the exchanges
CrossExamTerminates ==
  /\ [][ demo.phase = "EPISTEMIC_MAP" => demo'.phase = "EPISTEMIC_MAP" ]_vars
  /\ ((clicks >= 1 /\ demo.phase = "AWAITING_CROSS_EXAM") ~>
        demo.phase = "VERDICT")
  /\ (clicks >= 1 ~> [](demo.phase = "EPISTEMIC_MAP" /\ timers = {}))
  /\ [](Len(demo.crossExamMessages) <= NumExchanges * MaxClicks)

\* C14: whenever an agent is speaking in phase P it is the speaker P
\* declares: the agent the demo driver shows as active in a phase is the one
\* getActiveAgent, which the phase_change handler applies, gives that phase
C14_FixedSpeaker ==
  demo.activeAgent # "null" => demo.activeAgent = getActiveAgent(demo.phase)

\* unnamed/part_008 INTERRUPTIBLE_PHASES: the phases the other version of the
\* intervention bar shows its Interrupt button in
INTERRUPTIBLE_PHASES == { "DEFENSE_OPENING", "PROSECUTION_OPENING" }

\* C15: the interrupt control is offered in exactly DEFENSE_OPENING,
\* PROSECUTION_OPENING, CROSS_EXAM_1 and CROSS_EXAM_2: whatever phase the
\* demo is in, either version of the intervention bar is shown exactly when
\* that phase is one of the four
C15_InterruptiblePhases ==
  /\ demo.phase \in ACTIVE_PHASES <=> demo.phase \in InterruptEligible
  /\ demo.phase \in INTERRUPTIBLE_PHASES <=> demo.phase \in InterruptEligible

\* a score is a number from 0 to 100
InRange(x) == x \in 0..100

\* C16: both confidence scores are within [0, 100] in every reachable state:
\* the session's pair, the pair in a confidence_update on its way, and the
\* pair the client holds and shows
C16_ScoresInRange ==
  /\ \A r \in Roles : InRange(scores[r]) /\ InRange(ws.confidence[r])
  /\ conf_msg # NoMsg =>
       (InRange(conf_msg.defense) /\ InRange(conf_msg.prosecution))
  /\ \A r \in Roles : InRange(demo.confidence[r])

\* C16 witness: the client shows a score at each end of the range, the
\* latest event having pushed against the upper end
C16_Witness ==
  /\ ws.confidence.defense = 100
  /\ ws.confidence.prosecution = 0
  /\ scores = ws.confidence
  /\ last_event = [role |-> "defense", kind |-> "direct_rebuttal"]

\* C17: a scoring event changes only the targeted role's score, by the
\* event kind's delta followed by clamping; a kill shot against a score of
\* 65 gives 55 and an uncited claim on 55 gives 50
C17_TargetedDelta ==
  [][ scores' # scores \/ last_event' # last_event =>
        /\ \A r \in Roles : r # last_event'.role => scores'[r] = scores[r]
        /\ LET r == last_event'.role
               d == CASE last_event'.kind = "academic_source" -> 5
                      [] last_event'.kind = "direct_rebuttal" -> 10
                      [] last_event'.kind = "uncited_claim" -> -5
                      [] last_event'.kind = "contradicted" -> -10
                      [] last_event'.kind = "directive_ignored" -> -8
                      [] last_event'.kind = "directive_addressed" -> 7
                      [] OTHER -> 0
           IN  /\ scores[r] + d \in 0..100 => scores'[r] = scores[r] + d
               /\ scores[r] + d < 0 => scores'[r] = 0
               /\ scores[r] + d > 100 => scores'[r] = 100
               /\ (scores[r] = 65 /\ last_event'.kind = "contradicted")
                    => scores'[r] = 55
               /\ (scores[r] = 55 /\ last_event'.kind = "uncited_claim")
                    => scores'[r] = 50 ]_vars

\* C17 witness: the defense, brought to 65 (which the client still shows),
\* took a kill shot and stands at 55, the prosecution still at its seed
C17_Witness ==
  /\ scores.defense = 55
  /\ scores.prosecution = 50
  /\ last_event = [role |-> "defense", kind |-> "contradicted"]
  /\ ws.confidence = [defense |-> 65, prosecution |-> 50]
  /\ conf_msg = ConfidenceUpdate(scores)

FlagsFor(i) == {k \in 1..Len(validation.flags) : validation.flags[k].sentence = i}

\* sentence i carries no marker and no hedging keyword
UncitedFactual(sentence) ==
  \A j \in 1..Len(sentence) : sentence[j] \notin MARKERS \cup HEDGE_KEYWORDS

\* sentence i carries a marker whose id the registry lacks
UnknownMarker(sentence, registry) ==
  \E j \in 1..Len(sentence) :
    sentence[j] \in MARKERS /\ MarkerId(sentence[j]) \notin registry

ScenarioB_Text == << "Claim", "[TOOL:tool_001]", ".", "Claim", "." >>

\* C19: after a run, every sentence with no marker and no hedging keyword,
\* or with a marker whose id is not in the registry, has exactly one
\* unsupported flag and every other sentence has none; for registry
\* {tool_001} and text "Claim A [TOOL:tool_001]. Claim B." the result is one
\* resolved citation (tool_001) and one unsupported flag, for "Claim B.".
C19_OneFlagPerUnsupportedSentence ==
  runs >= 1 =>
    /\ \A i \in 1..Len(Sentences(text)) :
         LET sentence == Sentences(text)[i]
         IN IF UncitedFactual(sentence) \/ UnknownMarker(sentence, evidence)
              THEN Cardinality(FlagsFor(i)) = 1
              ELSE FlagsFor(i) = {}
    /\ \A k \in 1..Len(validation.flags) :
         /\ validation.flags[k].status = "unsupported"
         /\ validation.flags[k].sentence \in 1..Len(Sentences(text))
         /\ validation.flags[k].span =
              Sentences(text)[validation.flags[k].sentence]
    /\ (text = ScenarioB_Text /\ evidence = {"tool_001"}) =>
         /\ validation.resolved = << "tool_001" >>
         /\ validation.flags =
              << [sentence |-> 2, span |-> << "Claim" >>,
                  status |-> "unsupported"] >>

\* Scenario B has been validated
C19_Witness ==
  /\ runs >= 1
  /\ text = ScenarioB_Text
  /\ evidence = {"tool_001"}
  /\ validation.resolved = << "tool_001" >>
  /\ Len(validation.flags) = 1

\* the last two Turn Executor invocations both ended by provider failure
FailedTwice ==
  /\ Len(outcomes) >= 2
  /\ outcomes[Len(outcomes)] = "failed"
  /\ outcomes[Len(outcomes) - 1] = "failed"

C21_PartialTextRetained ==
  [][(/\ Len(outcomes') = Len(outcomes) + 1
      /\ outcomes'[Len(outcomes')] \in {"directive", "failed"}
      /\ turn.partial_response # << >>) =>
       /\ Len(transcript') = Len(transcript) + 1
       /\ transcript'[Len(transcript')].agent = turn.role
       /\ transcript'[Len(transcript')].content = turn.partial_response
       /\ transcript'[Len(transcript')].interrupted =
            (outcomes'[Len(outcomes')] = "directive")]_vars

\* the dilemmas that are empty or only whitespace
BlankDilemmas == {"", " "}

SpeakingPhases ==
  {"DEFENSE_OPENING", "PROSECUTION_OPENING", "CROSS_EXAM_1", "CROSS_EXAM_2"}

\* the phases that can follow p on normal completion
Successors(p) == {Successor(p, r) : r \in 0..(MaxRounds + 1)}

\* C23: the Directive check never stalls a Turn.  A Turn that ends with its
\* stream exhausted has forwarded every increment in order and is recorded
\* complete; and a Turn running in a speaking phase leads, with no external
\* event, to the successor phase unless a Directive is enqueued.
C23_NoStall ==
  /\ [][(Len(outcomes') = Len(outcomes) + 1
         /\ outcomes'[Len(outcomes')] = "exhausted"
         /\ turn.pc = "await_chunk") =>
          /\ Forwarded(sink) = [i \in 1..MaxChunks |-> i]
          /\ turn.partial_response = Forwarded(sink)
          /\ transcript' = Append(transcript,
               [agent |-> turn.role, content |-> Forwarded(sink),
                interrupted |-> FALSE])]_vars
  /\ \A p \in SpeakingPhases :
       (current_phase = p /\ opc = "in_turn" /\ dir_count = 0) ~>
         (dir_count > 0 \/
          (current_phase \in Successors(p) \ {p} /\ ~LastTurn.interrupted
           /\ LastTurn.content = [i \in 1..MaxChunks |-> i]))

\* the defense's opening ran to its end with no Directive ever enqueued and
\* the Phase has advanced
C23_Witness ==
  /\ dir_count = 0
  /\ current_phase = "PROSECUTION_OPENING"
  /\ opc = "run_turn"
  /\ LastTurn = [agent |-> "defense", content |-> [i \in 1..MaxChunks |-> i],
                 interrupted |-> FALSE]
  /\ Len(sink) = MaxChunks

\* the ids of the evidence list the panels were given
PanelEvidenceIds == {panel.evidence[i] : i \in 1..Len(panel.evidence)}

\* C24: a marker becomes a clickable citation exactly when its id is in the
\* evidence list, an absent id yields nothing, the citations extracted from
\* a text hold each evidence id at most once (and exactly the cited ids
\* that are in the list), and the number of a citation is the 1-based
\* position of its evidence card in the Evidence Trail.
C24_CitationsResolve ==
  panel.rendered =>
    /\ Len(panel.inline) = Len(panel.text)
    /\ \A i \in 1..Len(panel.text) :
         LET id == TokenId(panel.text[i])
             el == panel.inline[i]
         IN /\ (el.kind = "button") <=> (id \in PanelEvidenceIds)
            /\ (id # "none" /\ id \notin PanelEvidenceIds) => el.kind = "null"
            /\ el.kind = "button" =>
                 /\ el.evidenceId = id
                 /\ el.index \in 1..Len(panel.cards)
                 /\ panel.cards[el.index].id = id
                 /\ panel.cards[el.index].index = el.index
    /\ \A k, l \in 1..Len(panel.citations) :
         panel.citations[k].evidenceId = panel.citations[l].evidenceId =>
           k = l
    /\ {panel.citations[k].evidenceId : k \in 1..Len(panel.citations)} =
         {TokenId(panel.text[i]) : i \in 1..Len(panel.text)}
         \cap PanelEvidenceIds
    /\ \A k \in 1..Len(panel.citations) :
         /\ panel.citations[k].index \in 1..Len(panel.cards)
         /\ panel.cards[panel.citations[k].index].id =
              panel.citations[k].evidenceId

\* a text citing one evidence item twice and an absent id once, the cited
\* item being the second card of the Evidence Trail
C24_Witness ==
  /\ panel.rendered
  /\ Len(panel.evidence) = 2
  /\ Len(panel.citations) = 1
  /\ panel.citations[1].index = 2
  /\ Cardinality({i \in 1..Len(panel.inline) :
                    panel.inline[i].kind = "button"
                    /\ panel.inline[i].index = 2}) = 2
  /\ \E i \in 1..Len(panel.inline) : panel.inline[i].kind = "null"

\* C25: once the socket has been connected with the live phase past INTAKE,
\* no render of App chooses demo mode again, whether the socket is connected
\* or not.
C25_NoFallbackToDemo ==
  (hookpc = "mounted" /\ app.wasLive /\ ~app.dirty) => ~app.useDemo

\* what holds of App as written: a render never chooses demo mode once a
\* render has seen the live debate started (startedLive is latched)
StartedLiveLatched ==
  /\ [][app.startedLive => app'.startedLive]_vars
  /\ []((app.startedLive /\ ~app.dirty) => ~app.useDemo)

\* C26: after the cleanup of useDebateSocket has run on unmount, the hook
\* opens no WebSocket again: the close event of the socket the cleanup closed
\* sets no reconnect timer, and no timer calls connect.
C26_NoReconnectAfterCleanup ==
  [][hookpc = "unmounted" =>
       /\ Len(sockets') = Len(sockets)
       /\ rtimers' \subseteq rtimers]_vars

\* the sockets of the hook that are connecting or open
LiveSockets == {i \in 1..Len(sockets) : sockets[i] \in {"connecting", "open"}}

\* C27: while the hook is mounted, under any interleaving of open, close and
\* error events and reconnect timers, connected is true whenever the socket
\* wsRef refers to is open (no event of a superseded socket turns it off),
\* and at most one socket of the hook is connecting or open.
C27_ConnectedTracksSocket ==
  hookpc = "mounted" =>
    /\ (wsRef # 0 /\ sockets[wsRef] = "open") => ws.connected
    /\ Cardinality(LiveSockets) <= 1

\* what holds of the hook as written: as long as the url has not changed,
\* the sockets form one chain, each created after its predecessor closed
SingleChainWithoutUrlChange ==
  (hookpc = "mounted" /\ url_changes = 0) =>
    /\ (wsRef # 0 /\ sockets[wsRef] = "open") => ws.connected
    /\ ws.connected => (wsRef # 0 /\ sockets[wsRef] \in {"open", "closing"})
    /\ Cardinality(LiveSockets) <= 1
    /\ LiveSockets \subseteq {wsRef}

\* the text the hook holds for a role
TextOf(w, role) ==
  CASE role = "defense" -> w.defenseText
    [] role = "prosecution" -> w.prosecutionText
    [] role = "researcher" -> w.researcherText
    [] role = "judge" -> w.judgeText

\* the interrupted flag the hook holds for a role (two roles have one)
InterruptedOf(w, role) ==
  CASE role = "defense" -> w.defenseInterrupted
    [] role = "prosecution" -> w.prosecutionInterrupted
    [] OTHER -> FALSE

\* the contents of the messages for a role, in the order received
RECURSIVE ContentFor(_, _)
ContentFor(role, msgs) ==
  IF msgs = << >>
    THEN << >>
    ELSE (IF Head(msgs).agent = role THEN << Head(msgs).content >>
                                     ELSE << >>)
         \o ContentFor(role, Tail(msgs))

\* C28: after any sequence of agent_stream messages the text held for each
\* role is the in-order concatenation of the contents of the messages
\* received for that role, and a message for one role leaves the text and
\* the interrupted flag of every other role unchanged.
C28_TextIsConcatenation ==
  /\ [](\A r \in AgentRole : TextOf(ws, r) = ContentFor(r, received))
  /\ [][\A msg \in StreamMessages :
          received' = Append(received, msg) =>
            \A r \in AgentRole \ {msg.agent} :
              /\ TextOf(ws', r) = TextOf(ws, r)
              /\ InterruptedOf(ws', r) = InterruptedOf(ws, r)]_vars

\* two messages with different contents for the defense around an
\* interrupted one for the prosecution
C28_Witness ==
  /\ Len(received) = 3
  /\ received[1].agent = "defense" /\ received[1].content = "a"
  /\ received[2].agent = "prosecution" /\ received[2].interrupted
  /\ received[3].agent = "defense" /\ received[3].content = "b"
  /\ ws.defenseText = << "a", "b" >>
  /\ ws.prosecutionInterrupted /\ ~ws.defenseInterrupted

\* the entries of the tool-call list a step has changed
ChangedCalls ==
  {i \in 1..Len(ws.toolCalls) : ws'.toolCalls[i] # ws.toolCalls[i]}

\* C29: a tool_result message attaches its snippet and result_id to one
\* tool-call entry at most, a pending call of the message's tool and agent;
\* it adds and removes no entry, so complete calls keep their snippet and
\* result_id and calls of another tool or agent are unchanged.
C29_ResultAttachesOnce ==
  [][\A msg \in ToolResultMessages :
       received' = Append(received, msg) =>
         /\ Len(ws'.toolCalls) = Len(ws.toolCalls)
         /\ Cardinality(ChangedCalls) <= 1
         /\ \A i \in ChangedCalls :
              /\ ws.toolCalls[i].status = "pending"
              /\ ws.toolCalls[i].tool = msg.tool
              /\ ws.toolCalls[i].agent = msg.agent]_vars

\* what holds of the handler as written: a result changes only calls of its
\* tool and agent, and every such call ends complete with this result
ResultReachesEveryMatch ==
  [][\A msg \in ToolResultMessages :
       received' = Append(received, msg) =>
         /\ Len(ws'.toolCalls) = Len(ws.toolCalls)
         /\ \A i \in 1..Len(ws.toolCalls) :
              IF ws.toolCalls[i].tool = msg.tool
                 /\ ws.toolCalls[i].agent = msg.agent
                THEN /\ ws'.toolCalls[i].status = "complete"
                     /\ ws'.toolCalls[i].result_id = msg.result_id
                ELSE ws'.toolCalls[i] = ws.toolCalls[i]]_vars

\* C30: the intervention bar calls onIntervene only for a submit of
\* non-blank text: a submit of an empty or whitespace-only input calls
\* nothing and changes nothing, every other submit calls onIntervene once
\* with the trimmed text and clears the input, nothing else calls it, and
\* the bar is hidden whenever the phase is not interruptible and no
\* interrupt is pending.
C30_BarSendsNonBlankOnce ==
  /\ [][bar'.submits # bar.submits =>
          IF bar.input \in {"", " "}
            THEN /\ bar'.calls = bar.calls
                 /\ bar'.input = bar.input
            ELSE /\ bar'.calls = Append(bar.calls, Trim(bar.input))
                 /\ bar'.input = ""]_vars
  /\ [][bar'.calls # bar.calls => bar'.submits = bar.submits + 1]_vars
  /\ [](\A i \in 1..Len(bar.calls) : bar.calls[i] \in {"Why?"})
  /\ []((bar.phase \notin INTERRUPTIBLE_PHASES /\ ~bar.interruptPending)
          => bar.shown = "hidden")

\* a blank submit and a submit of padded text have both happened, and the
\* bar is hidden again
C30_Witness ==
  /\ bar.submits = 2
  /\ bar.calls = << "Why?" >>
  /\ bar.input = " "
  /\ bar.shown = "hidden"

====
